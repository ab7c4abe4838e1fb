---------------------- MODULE RecordingLifecycleProofs ----------------------
(***************************************************************************)
(* Proofs about RecordingLifecycle, for every number of meetings and stops,  *)
(* every number of faults of every kind.                                     *)
(***************************************************************************)
EXTENDS RecordingLifecycle, WellFoundedInduction, TLAPS

(***************************************************************************)
(* One recording at a time.                                                *)
(***************************************************************************)

Live(m) == status[m] \in {"recording", "stopping"}

(* Only a meeting that was started is live, and meetings start in order. *)
StartsInOrder ==
    \A m, k \in Meeting :
        /\ start[m] = "none" => ~Live(m)
        /\ start[m] # "none" /\ k < m => start[k] # "none"

(* Nothing starts after a meeting that is recording, nor is about to. *)
RecordsAlone ==
    \A m \in Meeting :
        status[m] = "recording" => /\ startup \in {None, m}
                                   /\ \A k \in Meeting : k > m => start[k] = "none"

(* The inductive invariant: a recording is the last meeting started, which is  *)
(* what makes it the one the start command's lookup finds.                     *)
RecordingInv ==
    /\ status \in [Meeting -> Statuses]
    /\ start \in [Meeting -> StartSteps]
    /\ startup \in Meeting \cup {None}
    /\ StartsInOrder
    /\ RecordsAlone

(* What every step but a start does to the guild: no meeting becomes live, no  *)
(* meeting begins, and the reservation is kept or given back.                  *)
StatusQuiet ==
    /\ status' \in [Meeting -> Statuses]
    /\ \A m \in Meeting : /\ status'[m] = "recording" => status[m] = "recording"
                          /\ status'[m] = "stopping" => Live(m)

StartQuiet ==
    /\ start' \in [Meeting -> StartSteps]
    /\ \A m \in Meeting : start'[m] = "none" <=> start[m] = "none"

ReservationQuiet == startup' \in {startup, None}

NoNewRecording == StatusQuiet /\ StartQuiet /\ ReservationQuiet

(* Active is the only live meeting with no live one after it. *)
LEMMA NewestIsActive ==
  ASSUME NEW m \in Meeting, Live(m), \A k \in Meeting : k > m => ~Live(k)
  PROVE  Active = m
<1> DEFINE live == {k \in Meeting : status[k] \in {"recording", "stopping"}}
<1>1. m \in live
  BY DEF Live
<1>2. live \subseteq Nat /\ \A k \in live : k <= m
  BY LifecycleAssumption DEF Live, Meeting
<1>3. \A n \in live : (\A k \in live : k <= n) => n = m
  BY <1>1, <1>2
<1> HIDE DEF live
<1>4. (CHOOSE n \in live : \A k \in live : k <= n) = m
  BY <1>1, <1>2, <1>3
<1>5. QED
  BY <1>1, <1>4 DEF Active, live

(* A non-empty set of meetings has a last one. *)
LEMMA NewestExists ==
  ASSUME NEW S, S \subseteq Meeting, S # {}
  PROVE  \E m \in S : \A k \in S : k <= m
<1> DEFINE before == OpToRel(<, Nat)
           T == {Meetings - k : k \in S}
<1>1. Meetings \in Nat /\ \A k \in S : k \in Nat /\ k <= Meetings
  BY LifecycleAssumption DEF Meeting
<1>2. T \subseteq Nat /\ T # {}
  BY <1>1
<1>3. IsWellFoundedOn(before, Nat)
  BY NatLessThanWellFounded
<1> HIDE DEF before
<1>4. PICK x \in T : \A y \in T : ~(<<y, x>> \in before)
  <2> HIDE DEF T
  <2> QED BY <1>2, <1>3, WFMin
<1>5. \A y \in T : ~(y < x)
  BY <1>2, <1>4 DEF before, OpToRel
<1>6. PICK m \in S : x = Meetings - m
  BY <1>4
<1>7. \A k \in S : ~(Meetings - k < Meetings - m)
  BY <1>5, <1>6
<1>8. QED
  BY <1>1, <1>6, <1>7

(* find_active_meeting_by_guild finds nothing or a meeting that is not over. *)
LEMMA ActiveIsLive == Active = None \/ (Active \in Meeting /\ Live(Active))
<1> DEFINE live == {k \in Meeting : status[k] \in {"recording", "stopping"}}
<1>1. CASE live = {}
  BY <1>1 DEF Active
<1>2. CASE live # {}
  <2>1. \E m \in live : \A k \in live : k <= m
    <3>1. live \subseteq Meeting
      OBVIOUS
    <3> HIDE DEF live
    <3>2. QED
      BY <1>2, <3>1, NewestExists
  <2>2. Active = CHOOSE m \in live : \A k \in live : k <= m
    BY <1>2 DEF Active
  <2> HIDE DEF live
  <2>3. Active \in live
    BY <2>1, <2>2
  <2>4. QED
    BY <2>3 DEF live, Live
<1>3. QED
  BY <1>1, <1>2

LEMMA RecordingIsNewest ==
  ASSUME RecordingInv, NEW m \in Meeting, status[m] = "recording"
  PROVE  Active = m
<1>1. \A k \in Meeting : k > m => ~Live(k)
  BY DEF RecordingInv, RecordsAlone, StartsInOrder
<1>2. Live(m)
  BY DEF Live
<1>3. QED
  BY <1>1, <1>2, NewestIsActive

LEMMA QuietStepKeepsInv ==
  ASSUME RecordingInv, NoNewRecording
  PROVE  RecordingInv'
<1>1. StartsInOrder'
  BY DEF RecordingInv, NoNewRecording, StatusQuiet, StartQuiet, StartsInOrder, Live
<1>2. RecordsAlone'
  BY DEF RecordingInv, NoNewRecording, StatusQuiet, StartQuiet, ReservationQuiet, RecordsAlone
<1>3. (startup \in Meeting \cup {None})'
  BY DEF RecordingInv, NoNewRecording, ReservationQuiet
<1>4. QED
  BY <1>1, <1>2, <1>3 DEF RecordingInv, NoNewRecording, StatusQuiet, StartQuiet

(* The start command: whatever is recording would have been found. *)
LEMMA StartCommandKeepsInv ==
  ASSUME RecordingInv, NEW n \in Meeting, StartCommand(n)
  PROVE  RecordingInv'
<1>0. n \in Nat /\ Meeting \subseteq Nat /\ n # None
  BY LifecycleAssumption DEF Meeting, None
<1>1. /\ status' = [status EXCEPT ![n] = "recording"]
      /\ start' = [start EXCEPT ![n] = "setup"]
      /\ startup' = n /\ start[n] = "none"
      /\ \A k \in Meeting : k < n => start[k] # "none"
  BY <1>0, LifecycleAssumption DEF StartCommand, SetStatus, StartGoto, Meeting
<1>2. ASSUME NEW m \in Meeting PROVE status[m] # "recording"
  <2>1. SUFFICES ASSUME status[m] = "recording" PROVE FALSE
    OBVIOUS
  <2>2. Active = m
    BY <2>1, RecordingIsNewest
  <2>3. m # None
    BY LifecycleAssumption DEF Meeting, None
  <2>4. QED
    BY <2>1, <2>2, <2>3 DEF StartCommand
<1>3. \A k \in Meeting : k > n => start[k] = "none"
  BY <1>0, <1>1 DEF RecordingInv, StartsInOrder
<1>4. StartsInOrder'
  BY <1>0, <1>1, <1>3 DEF RecordingInv, StartsInOrder, Live
<1>5. RecordsAlone'
  BY <1>0, <1>1, <1>2, <1>3 DEF RecordingInv, RecordsAlone
<1>6. (status \in [Meeting -> Statuses])' /\ (start \in [Meeting -> StartSteps])'
  BY <1>1 DEF RecordingInv, Statuses, StartSteps
<1>7. (startup \in Meeting \cup {None})'
  BY <1>1
<1>8. QED
  BY <1>4, <1>5, <1>6, <1>7 DEF RecordingInv

(* Writes of a status other than recording, and of a start task's next step. *)
LEMMA StatusWrites ==
  ASSUME RecordingInv, NEW m, NEW value \in {"posted", "failed"}
  PROVE  /\ SetStatus(m, value) => StatusQuiet
         /\ \A expected : FailFrom(m, expected) => StatusQuiet
         /\ UNCHANGED status => StatusQuiet
<1>1. SetStatus(m, value) => StatusQuiet
  BY DEF RecordingInv, SetStatus, StatusQuiet, Statuses, Live
<1>2. ASSUME NEW expected PROVE FailFrom(m, expected) => StatusQuiet
  BY DEF RecordingInv, FailFrom, StatusQuiet, Statuses, Live
<1>3. UNCHANGED status => StatusQuiet
  BY DEF RecordingInv, StatusQuiet, Live
<1>4. QED
  BY <1>1, <1>2, <1>3

(* The stop marks the meeting that its lookup found, which is live. *)
LEMMA StoppingWrite ==
  ASSUME RecordingInv, NEW m, Active = m, SetStatus(m, "stopping")
  PROVE  StatusQuiet
<1>1. CASE m \in Meeting
  BY <1>1, ActiveIsLive, LifecycleAssumption
  DEF RecordingInv, SetStatus, StatusQuiet, Statuses, Live, Meeting, None
<1>2. CASE m \notin Meeting
  BY <1>2 DEF RecordingInv, SetStatus, StatusQuiet, Live
<1>3. QED
  BY <1>1, <1>2

LEMMA StartWrites ==
  ASSUME RecordingInv, NEW m \in Meeting, start[m] # "none", NEW pc \in StartSteps \ {"none"}
  PROVE  StartGoto(m, pc) => StartQuiet
BY DEF RecordingInv, StartGoto, StartQuiet

LEMMA ReservationWrites ==
  ASSUME NEW m
  PROVE  /\ ClearLocal(m) => ReservationQuiet
         /\ ClearReservation(m) => ReservationQuiet
         /\ TakeAbsent(m) => ReservationQuiet
         /\ UNCHANGED startup => ReservationQuiet
         /\ startup' = Without(startup, m) => ReservationQuiet
BY DEF ClearLocal, ClearReservation, TakeAbsent, Without, ReservationQuiet

LEMMA CleanupWrites ==
  ASSUME RecordingInv, NEW m, CleanupStart(m)
  PROVE  StatusQuiet /\ ReservationQuiet
BY StatusWrites, ReservationWrites DEF CleanupStart

(* The start task after its command. *)
LEMMA StartTaskQuiet ==
  ASSUME RecordingInv, NEW m \in Meeting, StartTask(m)
  PROVE  NoNewRecording
<1> USE StatusWrites, StartWrites, ReservationWrites
<1> USE DEF NoNewRecording, StartSteps
<1>1. CASE PrepareWorkspace(m)
  BY <1>1, CleanupWrites DEF PrepareWorkspace
<1>2. CASE CheckStillRecording(m)
  BY <1>2, CleanupWrites DEF CheckStillRecording
<1>3. CASE InsertSession(m)
  BY <1>3 DEF InsertSession
<1>4. CASE Join(m)
  BY <1>4 DEF Join
<1>5. CASE JoinReturns(m)
  BY <1>5 DEF JoinReturns
<1>6. CASE JoinCleanup(m)
  BY <1>6, CleanupWrites DEF JoinCleanup
<1>7. CASE JoinGivesUp(m)
  BY <1>7, CleanupWrites DEF JoinGivesUp
<1>8. CASE Verify(m)
  BY <1>8, CleanupWrites DEF Verify
<1>9. CASE VerifyBlind(m)
  BY <1>9, CleanupWrites DEF VerifyBlind
<1>10. QED
  BY <1>1, <1>2, <1>3, <1>4, <1>5, <1>6, <1>7, <1>8, <1>9 DEF StartTask

(* The stops and the timers: only MarkStopping makes a meeting stopping. *)
LEMMA StopTaskQuiet ==
  ASSUME RecordingInv, NEW s \in Stopper, StopCommand(s) \/ ArmTimer(s) \/ StopTaskStep(s)
  PROVE  NoNewRecording
<1> USE StatusWrites, StoppingWrite, ReservationWrites
<1> USE DEF NoNewRecording
<1>0. UNCHANGED start => StartQuiet
  BY DEF RecordingInv, StartQuiet
<1>1. CASE StopCommand(s)
  BY <1>0, <1>1 DEF StopCommand
<1>2. CASE ArmTimer(s)
  BY <1>0, <1>2 DEF ArmTimer
<1>3. CASE TimerFires(s)
  BY <1>0, <1>3 DEF TimerFires
<1>4. CASE TimerFiresBlind(s)
  BY <1>0, <1>4 DEF TimerFiresBlind
<1>5. CASE FlushForStop(s)
  BY <1>0, <1>5 DEF FlushForStop
<1>6. CASE MarkStopping(s)
  BY <1>0, <1>6 DEF MarkStopping
<1>7. CASE MarkAbsent(s)
  BY <1>0, <1>7 DEF MarkAbsent
<1>8. CASE MarkFails(s)
  BY <1>0, <1>8 DEF MarkFails
<1>9. CASE RemoveSession(s)
  BY <1>0, <1>9 DEF RemoveSession
<1>10. CASE LeaveAfterStop(s)
  BY <1>0, <1>10 DEF LeaveAfterStop
<1>11. CASE TailFlush(s)
  BY <1>0, <1>11 DEF TailFlush
<1>12. CASE Finalize(s)
  BY <1>0, <1>12 DEF Finalize
<1>13. CASE RecordLoss(s)
  BY <1>0, <1>13 DEF RecordLoss
<1>14. CASE Exhaust(s)
  BY <1>0, <1>14 DEF Exhaust, FailUnlessOver
<1>15. CASE ExhaustFails(s)
  BY <1>0, <1>15 DEF ExhaustFails, FailUnlessOver
<1>16. QED
  BY <1>1, <1>2, <1>3, <1>4, <1>5, <1>6, <1>7, <1>8, <1>9, <1>10, <1>11, <1>12, <1>13, <1>14, <1>15 DEF StopTaskStep

(* Everybody else. *)
LEMMA OthersQuiet ==
  ASSUME RecordingInv,
         \/ \E m \in Meeting : \/ CleanupRetry(m) \/ CleanupForce(m) \/ FinishAbsent(m)
                               \/ Summarize(m) \/ RecoveryScan(m)
         \/ \E c \in recovery : RecoveryActs(c)
         \/ VoiceEvent \/ VoiceTick
  PROVE  NoNewRecording
<1> USE StatusWrites, ReservationWrites
<1> USE DEF NoNewRecording
<1>0. UNCHANGED start => StartQuiet
  BY DEF RecordingInv, StartQuiet
<1>1. ASSUME NEW m \in Meeting, CleanupRetry(m) PROVE NoNewRecording
  BY <1>0, <1>1 DEF CleanupRetry
<1>2. ASSUME NEW m \in Meeting, CleanupForce(m) PROVE NoNewRecording
  BY <1>0, <1>2 DEF CleanupForce
<1>3. ASSUME NEW m \in Meeting, FinishAbsent(m) PROVE NoNewRecording
  BY <1>0, <1>3 DEF FinishAbsent
<1>4. ASSUME NEW m \in Meeting, Summarize(m) PROVE NoNewRecording
  BY <1>0, <1>4 DEF Summarize
<1>5. ASSUME NEW m \in Meeting, RecoveryScan(m) PROVE NoNewRecording
  BY <1>0, <1>5 DEF RecoveryScan
<1>6. ASSUME NEW c \in recovery, RecoveryActs(c) PROVE NoNewRecording
  <2> DEFINE m == c.meeting
             stopped == [status EXCEPT ![m] = IF @ = "recording" /\ c.status = "recording"
                                              THEN "stopping" ELSE @]
  <2>1. UNCHANGED start /\ UNCHANGED startup
    BY <1>6 DEF RecoveryActs
  <2>2. UNCHANGED status \/ status' = stopped \/ FailFrom(m, {c.status})
    BY <1>6 DEF RecoveryActs
  <2>3. status' = stopped => StatusQuiet
    BY DEF RecordingInv, StatusQuiet, Statuses, Live
  <2>4. QED
    BY <1>0, <2>1, <2>2, <2>3
<1>7. CASE VoiceEvent
  BY <1>0, <1>7, CleanupWrites DEF VoiceEvent
<1>8. CASE VoiceTick
  BY <1>0, <1>8 DEF VoiceTick
<1>9. QED
  BY <1>1, <1>2, <1>3, <1>4, <1>5, <1>6, <1>7, <1>8

(* Every step preserves the inductive invariant. *)
LEMMA RecordingInvStep ==
  ASSUME RecordingInv, [Next]_vars
  PROVE  RecordingInv'
<1>1. CASE UNCHANGED vars
  BY <1>1 DEF RecordingInv, StartsInOrder, RecordsAlone, Live, vars
<1>2. ASSUME NEW m \in Meeting, StartCommand(m) PROVE RecordingInv'
  BY <1>2, StartCommandKeepsInv
<1>3. ASSUME NEW m \in Meeting, StartTask(m) PROVE RecordingInv'
  BY <1>3, StartTaskQuiet, QuietStepKeepsInv
<1>4. ASSUME NEW s \in Stopper, StopCommand(s) \/ ArmTimer(s) \/ StopTaskStep(s)
      PROVE  RecordingInv'
  BY <1>4, StopTaskQuiet, QuietStepKeepsInv
<1>5. QED
  BY <1>1, <1>2, <1>3, <1>4, OthersQuiet, QuietStepKeepsInv DEF Next

(* The last meeting started is the only one that may be recording. *)
THEOREM RecordingInvariant == Spec => []RecordingInv
<1>1. Init => RecordingInv
  BY DEF Init, RecordingInv, StartsInOrder, RecordsAlone, Live, Statuses, StartSteps
<1>2. RecordingInv /\ [Next]_vars => RecordingInv'
  BY RecordingInvStep
<1>3. QED
  BY <1>1, <1>2, PTL DEF Spec

(* A guild records one meeting at a time, its newest, and nobody else has      *)
(* reserved the guild meanwhile: whatever fails, however many starts, stops,   *)
(* timers, cleanups and recoveries interleave.                                 *)
THEOREM RecordsOneMeeting == Spec => []OneRecording
<1>1. RecordingInv => OneRecording
  BY RecordingIsNewest DEF RecordingInv, RecordsAlone, OneRecording
<1>2. QED
  BY <1>1, RecordingInvariant, PTL

(***************************************************************************)
(* Type correctness.  A join is tried only while attempts are left, and a   *)
(* stop at work aims at a meeting.                                          *)
(***************************************************************************)

TriesOK ==
    /\ tries \in [Meeting -> 0..JoinAttempts]
    /\ \A m \in Meeting : start[m] \in {"none", "setup", "insert", "reset", "join"}
                            => tries[m] < JoinAttempts

StopOK ==
    /\ stop \in [Stopper -> StopTask]
    /\ \A s \in Stopper : stop[s].pc # "idle" => stop[s].target \in Meeting

AudioOK == unsaved \in [Meeting -> BOOLEAN] /\ lost \in [Meeting -> BOOLEAN]

LocalOK == session \in Meeting \cup {None} /\ absent \subseteq Meeting

RestOK ==
    /\ job \in [Meeting -> {"none", "queued", "done"}]
    /\ call \in Meeting \cup {None}
    /\ cleanup \in [Meeting -> {"none", "retry", "force"}]
    /\ recovery \subseteq Candidate
    /\ faults \in 0..MaxFaults

TypeInv == TriesOK /\ StopOK /\ AudioOK /\ LocalOK /\ RestOK

LEMMA MeetingIsNotNone == Meeting \subseteq Nat /\ None \notin Meeting
BY LifecycleAssumption DEF Meeting, None

LEMMA WhatIsKept ==
  ASSUME TypeInv
  PROVE  /\ UNCHANGED stop => StopOK'
         /\ UNCHANGED <<unsaved, lost>> => AudioOK'
         /\ UNCHANGED <<session, absent>> => LocalOK'
         /\ UNCHANGED <<start, tries>> => TriesOK'
BY DEF TypeInv, StopOK, AudioOK, LocalOK, TriesOK

LEMMA StopWrites ==
  ASSUME StopOK, NEW s \in Stopper
  PROVE  /\ \A pc \in StopSteps : stop[s].pc # "idle" /\ StopGoto(s, pc) => StopOK'
         /\ StopEnds(s) => StopOK'
<1>1. ASSUME NEW pc \in StopSteps, stop[s].pc # "idle", StopGoto(s, pc) PROVE StopOK'
  BY <1>1 DEF StopOK, StopGoto, StopTask
<1>2. IdleStop \in StopTask /\ IdleStop.pc = "idle"
  BY DEF IdleStop, StopTask, StopSteps
<1>3. StopEnds(s) => StopOK'
  BY <1>2 DEF StopOK, StopEnds
<1>4. QED
  BY <1>1, <1>3

LEMMA AudioWrites ==
  ASSUME AudioOK, NEW m
  PROVE  DropAudio(m) => AudioOK'
BY DEF AudioOK, DropAudio

LEMMA LocalWrites ==
  ASSUME AudioOK, LocalOK, NEW m
  PROVE  /\ ClearLocal(m) => AudioOK' /\ session' \in Meeting \cup {None}
         /\ ClearReservation(m) => AudioOK' /\ UNCHANGED session
         /\ m # None /\ TakeAbsent(m) => LocalOK'
BY AudioWrites DEF AudioOK, LocalOK, ClearLocal, ClearReservation, TakeAbsent, Without

LEMMA RestWrites ==
  ASSUME RestOK, NEW m
  PROVE  /\ \A kind : Disturb(kind) => faults' \in 0..MaxFaults
         /\ EnqueueJob(m) => job' \in [Meeting -> {"none", "queued", "done"}]
         /\ LeaveVoice => call' \in Meeting \cup {None}
BY LifecycleAssumption DEF RestOK, Disturb, EnqueueJob, LeaveVoice

LEMMA CleanupTypes ==
  ASSUME AudioOK, LocalOK, RestOK, NEW m, CleanupStart(m)
  PROVE  /\ AudioOK' /\ session' \in Meeting \cup {None}
         /\ cleanup' \in [Meeting -> {"none", "retry", "force"}]
         /\ faults' \in 0..MaxFaults
<1>1. UNCHANGED <<unsaved, lost>> => AudioOK'
  BY DEF AudioOK
<1>2. QED
  BY <1>1, LocalWrites, RestWrites DEF CleanupStart, LocalOK, RestOK

LEMMA StartTypes ==
  ASSUME RecordingInv, TypeInv, NEW m \in Meeting, StartCommand(m) \/ StartTask(m)
  PROVE  TypeInv'
<1> USE WhatIsKept, LocalWrites, RestWrites, CleanupTypes
<1> USE DEF TypeInv
<1>0. ASSUME NEW pc \in StartSteps, StartGoto(m, pc), UNCHANGED tries,
             start[m] \in {"none", "setup", "insert", "reset"} \/ tries[m] < JoinAttempts
                \/ pc \notin {"none", "setup", "insert", "reset", "join"}
      PROVE  TriesOK'
  BY <1>0 DEF RecordingInv, TriesOK, StartGoto
<1>1. CASE StartCommand(m)
  <2>1. TriesOK'
    BY <1>0, <1>1 DEF StartCommand, StartSteps
  <2>2. StopOK' /\ AudioOK' /\ LocalOK' /\ RestOK'
    BY <1>1 DEF StartCommand, LocalOK, RestOK
  <2>3. QED
    BY <2>1, <2>2
<1>2. CASE PrepareWorkspace(m)
  <2>1. TriesOK'
    BY <1>0, <1>2 DEF PrepareWorkspace, StartSteps
  <2>2. StopOK' /\ AudioOK' /\ LocalOK' /\ RestOK'
    BY <1>2 DEF PrepareWorkspace, LocalOK, RestOK
  <2>3. QED
    BY <2>1, <2>2
<1>3. CASE CheckStillRecording(m)
  <2>1. TriesOK'
    BY <1>0, <1>3 DEF CheckStillRecording, StartSteps
  <2>2. StopOK' /\ AudioOK' /\ LocalOK' /\ RestOK'
    BY <1>3 DEF CheckStillRecording, LocalOK, RestOK
  <2>3. QED
    BY <2>1, <2>2
<1>4. CASE InsertSession(m)
  <2>1. TriesOK'
    BY <1>0, <1>4 DEF InsertSession, StartSteps
  <2>2. StopOK' /\ AudioOK' /\ LocalOK' /\ RestOK'
    BY <1>4 DEF InsertSession, LocalOK, RestOK, AudioOK
  <2>3. QED
    BY <2>1, <2>2
<1>5. CASE Join(m)
  <2>1. TriesOK'
    BY <1>5, LifecycleAssumption DEF Join, RecordingInv, TriesOK, StartGoto
  <2>2. StopOK' /\ AudioOK' /\ LocalOK' /\ RestOK'
    BY <1>5 DEF Join, LocalOK, RestOK
  <2>3. QED
    BY <2>1, <2>2
<1>6. CASE JoinReturns(m)
  <2>1. TriesOK'
    BY <1>0, <1>6 DEF JoinReturns, StartSteps
  <2>2. StopOK' /\ AudioOK' /\ LocalOK' /\ RestOK'
    BY <1>6 DEF JoinReturns, LocalOK, RestOK
  <2>3. QED
    BY <2>1, <2>2
<1>7. CASE JoinCleanup(m)
  <2>1. TriesOK'
    BY <1>0, <1>7 DEF JoinCleanup, StartSteps
  <2>2. StopOK' /\ AudioOK' /\ LocalOK' /\ RestOK'
    BY <1>7 DEF JoinCleanup, LocalOK, RestOK
  <2>3. QED
    BY <2>1, <2>2
<1>8. CASE JoinGivesUp(m)
  <2>1. TriesOK'
    BY <1>0, <1>8 DEF JoinGivesUp, StartSteps
  <2>2. StopOK' /\ AudioOK' /\ LocalOK' /\ RestOK'
    BY <1>8 DEF JoinGivesUp, LocalOK, RestOK
  <2>3. QED
    BY <2>1, <2>2
<1>9. CASE Verify(m)
  <2>1. TriesOK'
    BY <1>0, <1>9 DEF Verify, StartSteps
  <2>2. StopOK' /\ AudioOK' /\ LocalOK' /\ RestOK'
    BY <1>9 DEF Verify, LocalOK, RestOK
  <2>3. QED
    BY <2>1, <2>2
<1>10. CASE VerifyBlind(m)
  <2>1. TriesOK'
    BY <1>0, <1>10 DEF VerifyBlind, StartSteps
  <2>2. StopOK' /\ AudioOK' /\ LocalOK' /\ RestOK'
    BY <1>10 DEF VerifyBlind, LocalOK, RestOK
  <2>3. QED
    BY <2>1, <2>2
<1>11. QED
  BY <1>1, <1>2, <1>3, <1>4, <1>5, <1>6, <1>7, <1>8, <1>9, <1>10 DEF StartTask

LEMMA StopTypes ==
  ASSUME TypeInv, NEW s \in Stopper, StopCommand(s) \/ ArmTimer(s) \/ StopTaskStep(s)
  PROVE  TypeInv'
<1> USE WhatIsKept, StopWrites, LocalWrites, RestWrites
<1> USE DEF TypeInv
<1>0. TriesOK'
  BY DEF StopCommand, ArmTimer, StopTaskStep, TimerFires, TimerFiresBlind, FlushForStop,
         MarkStopping, MarkAbsent, MarkFails, RemoveSession, LeaveAfterStop, TailFlush,
         Finalize, RecordLoss, Exhaust, ExhaustFails
<1>a. stop[s].pc # "idle" => stop[s].target \in Meeting /\ stop[s].target # None
  BY MeetingIsNotNone DEF StopOK
<1>1. CASE StopCommand(s)
  <2>1. StopOK'
    BY <1>1, ActiveIsLive DEF StopCommand, StopOK, IdleStop, StopTask, StopSteps
  <2>2. AudioOK' /\ LocalOK' /\ RestOK'
    BY <1>a, <1>1 DEF StopCommand, LocalOK, RestOK
  <2>3. QED
    BY <1>0, <2>1, <2>2
<1>2. CASE ArmTimer(s)
  <2>1. StopOK'
    BY <1>2, ActiveIsLive DEF ArmTimer, StopOK, IdleStop, StopTask, StopSteps
  <2>2. AudioOK' /\ LocalOK' /\ RestOK'
    BY <1>a, <1>2 DEF ArmTimer, LocalOK, RestOK
  <2>3. QED
    BY <1>0, <2>1, <2>2
<1>3. CASE TimerFires(s)
  <2>1. StopOK'
    BY <1>3 DEF TimerFires, StopSteps
  <2>2. AudioOK' /\ LocalOK' /\ RestOK'
    BY <1>a, <1>3 DEF TimerFires, LocalOK, RestOK
  <2>3. QED
    BY <1>0, <2>1, <2>2
<1>4. CASE TimerFiresBlind(s)
  <2>1. StopOK'
    BY <1>4 DEF TimerFiresBlind, StopSteps
  <2>2. AudioOK' /\ LocalOK' /\ RestOK'
    BY <1>a, <1>4 DEF TimerFiresBlind, LocalOK, RestOK
  <2>3. QED
    BY <1>0, <2>1, <2>2
<1>5. CASE FlushForStop(s)
  <2>1. StopOK'
    BY <1>5 DEF FlushForStop, StopOK, StopTask, StopSteps, StopGoto
  <2>2. AudioOK' /\ LocalOK' /\ RestOK'
    BY <1>a, <1>5 DEF FlushForStop, LocalOK, RestOK, AudioOK
  <2>3. QED
    BY <1>0, <2>1, <2>2
<1>6. CASE MarkStopping(s)
  <2>1. StopOK'
    BY <1>6, ZenonT(60) DEF MarkStopping, StopOK, StopTask, StopSteps
  <2>2. AudioOK' /\ LocalOK' /\ RestOK'
    BY <1>a, <1>6 DEF MarkStopping, LocalOK, RestOK
  <2>3. QED
    BY <1>0, <2>1, <2>2
<1>7. CASE MarkAbsent(s)
  <2>1. StopOK'
    BY <1>7 DEF MarkAbsent, StopSteps
  <2>2. AudioOK' /\ LocalOK' /\ RestOK'
    BY <1>a, <1>7 DEF MarkAbsent, LocalOK, RestOK
  <2>3. QED
    BY <1>0, <2>1, <2>2
<1>8. CASE MarkFails(s)
  <2>1. StopOK'
    BY <1>8 DEF MarkFails, StopOK, StopTask, StopSteps, StopEnds, IdleStop
  <2>2. AudioOK' /\ LocalOK' /\ RestOK'
    BY <1>a, <1>8 DEF MarkFails, LocalOK, RestOK
  <2>3. QED
    BY <1>0, <2>1, <2>2
<1>9. CASE RemoveSession(s)
  <2>1. StopOK'
    BY <1>9, ZenonT(60) DEF RemoveSession, StopOK, StopTask, StopSteps
  <2>2. AudioOK' /\ LocalOK' /\ RestOK'
    BY <1>a, <1>9 DEF RemoveSession, LocalOK, RestOK, Without
  <2>3. QED
    BY <1>0, <2>1, <2>2
<1>10. CASE LeaveAfterStop(s)
  <2>1. StopOK'
    BY <1>10 DEF LeaveAfterStop, StopSteps
  <2>2. AudioOK' /\ LocalOK' /\ RestOK'
    BY <1>a, <1>10 DEF LeaveAfterStop, LocalOK, RestOK
  <2>3. QED
    BY <1>0, <2>1, <2>2
<1>11. CASE TailFlush(s)
  <2>1. StopOK'
    BY <1>11 DEF TailFlush, StopSteps
  <2>2. LocalOK' /\ RestOK'
    BY <1>a, <1>11 DEF TailFlush, LocalOK, RestOK
  <2> DEFINE m == stop[s].target
             left == unsaved[m] /\ ~stop[s].carry
  <2>3. left \in BOOLEAN
    OBVIOUS
  <2>4. /\ unsaved' = [unsaved EXCEPT ![m] = left]
        /\ UNCHANGED lost \/ lost' = [lost EXCEPT ![m] = TRUE]
    BY <1>11 DEF TailFlush
  <2> HIDE DEF left
  <2>5. AudioOK'
    BY <2>3, <2>4 DEF AudioOK
  <2>6. QED
    BY <1>0, <2>1, <2>2, <2>5
<1>12. CASE Finalize(s)
  <2>1. StopOK'
    BY <1>12 DEF Finalize, StopSteps
  <2>2. AudioOK' /\ LocalOK' /\ RestOK'
    BY <1>a, <1>12 DEF Finalize, LocalOK, RestOK
  <2>3. QED
    BY <1>0, <2>1, <2>2
<1>13. CASE RecordLoss(s)
  <2>1. StopOK'
    BY <1>13 DEF RecordLoss, StopSteps
  <2>2. AudioOK' /\ LocalOK' /\ RestOK'
    BY <1>a, <1>13 DEF RecordLoss, LocalOK, RestOK
  <2>3. QED
    BY <1>0, <2>1, <2>2
<1>14. CASE Exhaust(s)
  <2>1. StopOK'
    BY <1>14 DEF Exhaust, StopSteps
  <2>2. AudioOK' /\ LocalOK' /\ RestOK'
    BY <1>a, <1>14 DEF Exhaust, LocalOK, RestOK
  <2>3. QED
    BY <1>0, <2>1, <2>2
<1>15. CASE ExhaustFails(s)
  <2>1. StopOK'
    BY <1>15 DEF ExhaustFails, StopSteps
  <2>2. AudioOK' /\ LocalOK' /\ RestOK'
    BY <1>a, <1>15 DEF ExhaustFails, LocalOK, RestOK
  <2>3. QED
    BY <1>0, <2>1, <2>2
<1>16. QED
  BY <1>1, <1>2, <1>3, <1>4, <1>5, <1>6, <1>7, <1>8, <1>9, <1>10, <1>11, <1>12, <1>13, <1>14, <1>15 DEF StopTaskStep

LEMMA OtherTypes ==
  ASSUME RecordingInv, TypeInv,
         \/ \E m \in Meeting : \/ CleanupRetry(m) \/ CleanupForce(m) \/ FinishAbsent(m)
                               \/ Summarize(m) \/ RecoveryScan(m)
         \/ \E c \in recovery : RecoveryActs(c)
         \/ VoiceEvent \/ VoiceTick
  PROVE  TypeInv'
<1> USE WhatIsKept, AudioWrites, LocalWrites, RestWrites
<1> USE DEF TypeInv
<1>1. ASSUME NEW m \in Meeting, CleanupRetry(m) PROVE TypeInv'
  BY <1>1 DEF CleanupRetry, LocalOK, RestOK
<1>2. ASSUME NEW m \in Meeting, CleanupForce(m) PROVE TypeInv'
  BY <1>2 DEF CleanupForce, LocalOK, RestOK
<1>3. ASSUME NEW m \in Meeting, FinishAbsent(m) PROVE TypeInv'
  BY <1>3 DEF FinishAbsent, LocalOK, RestOK
<1>4. ASSUME NEW m \in Meeting, Summarize(m) PROVE TypeInv'
  BY <1>4 DEF Summarize, RestOK
<1>5. ASSUME NEW m \in Meeting, RecoveryScan(m) PROVE TypeInv'
  <2> DEFINE local == session = m
             read(connected) == [meeting |-> m, status |-> status[m],
                                 connected |-> connected, local |-> local]
  <2>1. PICK connected \in {FALSE, call = m} : recovery' = recovery \cup {read(connected)}
    BY <1>5 DEF RecoveryScan
  <2>2. connected \in BOOLEAN
    OBVIOUS
  <2>3. local \in BOOLEAN
    OBVIOUS
  <2>4. status[m] \in {"recording", "stopping"}
    BY <1>5 DEF RecoveryScan
  <2> HIDE DEF local
  <2>5. read(connected) \in Candidate
    BY <2>2, <2>3, <2>4 DEF Candidate
  <2>6. recovery' \subseteq Candidate
    BY <2>1, <2>5 DEF RestOK
  <2>7. QED
    BY <1>5, <2>6 DEF RecoveryScan, RestOK
<1>6. ASSUME NEW c \in recovery, RecoveryActs(c) PROVE TypeInv'
  BY <1>6 DEF RecoveryActs, RestOK
<1>7. CASE VoiceEvent
  BY <1>7, CleanupTypes DEF VoiceEvent, LocalOK, RestOK
<1>8. CASE VoiceTick
  BY <1>8 DEF VoiceTick, AudioOK, RestOK
<1>9. QED
  BY <1>1, <1>2, <1>3, <1>4, <1>5, <1>6, <1>7, <1>8

LEMMA TypeInit == Init => TypeInv
<1>1. IdleStop \in StopTask /\ IdleStop.pc = "idle"
  BY DEF IdleStop, StopTask, StopSteps
<1>2. QED
  BY <1>1, LifecycleAssumption
  DEF Init, TypeInv, TriesOK, StopOK, AudioOK, LocalOK, RestOK

LEMMA TypeStep ==
  ASSUME RecordingInv, TypeInv, [Next]_vars
  PROVE  TypeInv'
<1>1. CASE UNCHANGED vars
  BY <1>1, WhatIsKept DEF vars, TypeInv, RestOK
<1>2. QED
  BY <1>1, StartTypes, StopTypes, OtherTypes DEF Next

(* Every variable stays in its type: no join beyond its attempts, no stop that *)
(* works on no meeting.                                                        *)
THEOREM TypeCorrect == Spec => []TypeOK
<1>1. RecordingInv /\ TypeInv /\ [Next]_vars => TypeInv'
  BY TypeStep
<1>2. RecordingInv /\ TypeInv => TypeOK
  BY DEF RecordingInv, TypeInv, TriesOK, StopOK, AudioOK, LocalOK, RestOK, TypeOK
<1>3. QED
  BY <1>1, <1>2, TypeInit, RecordingInvariant, PTL DEF Spec

(***************************************************************************)
(* A posted meeting fails for lost audio only.                             *)
(***************************************************************************)

(* A stop fails a meeting only after it has lost audio, and as long as the    *)
(* store answers no cleanup of a start is left to be retried.                 *)
LossKnown ==
    /\ \A s \in Stopper : stop[s].pc \in {"loss", "mark_retry"} => lost[stop[s].target]
    /\ \A m \in Meeting : cleanup[m] = "none"

LostGrows == \A m \in Meeting : lost[m] => lost'[m]

(* A meeting that was not started has no row yet. *)
Unwritten == \A m \in Meeting : start[m] = "none" => status[m] = "none"

(* A step leaves rows that are posted or not there yet alone. *)
RowsStay ==
    \A m \in Meeting : /\ status[m] = "posted" => status'[m] = "posted" \/ lost[m]
                       /\ status[m] = "none" => status'[m] = "none"

LEMMA LossWrites ==
  ASSUME TypeInv, NEW m
  PROVE  /\ UNCHANGED lost => LostGrows
         /\ DropAudio(m) => LostGrows
         /\ ClearLocal(m) => LostGrows
         /\ ClearReservation(m) => LostGrows
         /\ CleanupStart(m) => LostGrows
BY DEF TypeInv, AudioOK, LostGrows, DropAudio, ClearLocal, ClearReservation, CleanupStart

LEMMA RowWrites ==
  ASSUME RecordingInv, NEW m
  PROVE  /\ UNCHANGED status => RowsStay
         /\ \A expected : expected \subseteq {"recording", "stopping"} /\ FailFrom(m, expected)
                          => RowsStay
         /\ \A value : m \in Meeting /\ Live(m) /\ SetStatus(m, value) => RowsStay
         /\ CleanupStart(m) => RowsStay
<1>1. UNCHANGED status => RowsStay
  BY DEF RowsStay
<1>2. ASSUME NEW expected, expected \subseteq {"recording", "stopping"}, FailFrom(m, expected)
      PROVE  RowsStay
  <2>1. "posted" \notin expected /\ "none" \notin expected
    BY <1>2
  <2>2. QED
    BY <1>2, <2>1 DEF RecordingInv, RowsStay, FailFrom
<1>3. ASSUME NEW value, m \in Meeting, Live(m), SetStatus(m, value) PROVE RowsStay
  BY <1>3 DEF RecordingInv, RowsStay, SetStatus, Live
<1>4. CleanupStart(m) => RowsStay
  BY <1>1, <1>2 DEF CleanupStart
<1>5. QED
  BY <1>1, <1>2, <1>3, <1>4

(* The stops keep their place, or move to a step that fails nothing. *)
LEMMA LossMoves ==
  ASSUME TypeInv, LossKnown, LostGrows, UNCHANGED cleanup
  PROVE  /\ UNCHANGED stop => LossKnown'
         /\ \A s \in Stopper : StopEnds(s) => LossKnown'
         /\ \A s \in Stopper, pc \in StopSteps \ {"loss", "mark_retry"} :
                StopGoto(s, pc) => LossKnown'
<1>1. \A s \in Stopper : stop[s].pc # "idle" => stop[s].target \in Meeting
  BY DEF TypeInv, StopOK
<1>2. UNCHANGED stop => LossKnown'
  BY <1>1 DEF LossKnown, LostGrows
<1>3. ASSUME NEW s \in Stopper, StopEnds(s) PROVE LossKnown'
  BY <1>1, <1>3 DEF LossKnown, LostGrows, StopEnds, IdleStop, TypeInv, StopOK
<1>4. ASSUME NEW s \in Stopper, NEW pc \in StopSteps \ {"loss", "mark_retry"}, StopGoto(s, pc)
      PROVE  LossKnown'
  BY <1>1, <1>4 DEF LossKnown, LostGrows, StopGoto, TypeInv, StopOK, StopTask
<1>5. QED
  BY <1>2, <1>3, <1>4

LEMMA StartLoss ==
  ASSUME "statement" \notin FaultKinds, RecordingInv, TypeInv, LossKnown,
         NEW m \in Meeting, StartTask(m)
  PROVE  LossKnown' /\ RowsStay
<1> USE LossWrites, RowWrites, LossMoves
<1>0. ~Disturb("statement")
  BY DEF Disturb
<1>a. ASSUME NEW k, CleanupStart(k) PROVE UNCHANGED cleanup
  BY <1>0, <1>a DEF CleanupStart
<1>1. CASE PrepareWorkspace(m)
  BY <1>0, <1>a, <1>1 DEF PrepareWorkspace
<1>2. CASE CheckStillRecording(m)
  BY <1>0, <1>a, <1>2 DEF CheckStillRecording
<1>3. CASE InsertSession(m)
  BY <1>0, <1>a, <1>3 DEF InsertSession, LostGrows, TypeInv, AudioOK
<1>4. CASE Join(m)
  BY <1>0, <1>a, <1>4 DEF Join
<1>5. CASE JoinReturns(m)
  BY <1>0, <1>a, <1>5 DEF JoinReturns
<1>6. CASE JoinCleanup(m)
  BY <1>0, <1>a, <1>6 DEF JoinCleanup
<1>7. CASE JoinGivesUp(m)
  BY <1>0, <1>a, <1>7 DEF JoinGivesUp
<1>8. CASE Verify(m)
  BY <1>0, <1>a, <1>8 DEF Verify
<1>9. CASE VerifyBlind(m)
  BY <1>0, <1>a, <1>9 DEF VerifyBlind
<1>10. QED
  BY <1>1, <1>2, <1>3, <1>4, <1>5, <1>6, <1>7, <1>8, <1>9 DEF StartTask

LEMMA StopLoss ==
  ASSUME "statement" \notin FaultKinds, RecordingInv, TypeInv, LossKnown,
         NEW s \in Stopper, StopCommand(s) \/ ArmTimer(s) \/ StopTaskStep(s)
  PROVE  LossKnown' /\ RowsStay
<1> USE LossWrites, RowWrites, LossMoves
<1> USE DEF StopSteps
<1>0. ~Disturb("statement")
  BY DEF Disturb
<1>a. stop[s].pc # "idle" => stop[s].target \in Meeting
  BY DEF TypeInv, StopOK
<1>b. \A m \in Meeting : Active = m => Live(m)
  BY ActiveIsLive, MeetingIsNotNone
<1>c. stop \in [Stopper -> StopTask]
  BY DEF TypeInv, StopOK
<1>1. CASE StopCommand(s)
  <2>1. RowsStay /\ LostGrows
    BY <1>a, <1>b, <1>1 DEF StopCommand
  <2>2. LossKnown'
    BY <1>c, <1>1, <2>1 DEF StopCommand, LossKnown, LostGrows, StopTask, IdleStop
  <2>3. QED
    BY <2>1, <2>2
<1>2. CASE ArmTimer(s)
  <2>1. RowsStay /\ LostGrows
    BY <1>a, <1>b, <1>2 DEF ArmTimer
  <2>2. LossKnown'
    BY <1>c, <1>2, <2>1 DEF ArmTimer, LossKnown, LostGrows, StopTask, IdleStop
  <2>3. QED
    BY <2>1, <2>2
<1>3. CASE TimerFires(s)
  BY <1>0, <1>a, <1>b, <1>3 DEF TimerFires
<1>4. CASE TimerFiresBlind(s)
  BY <1>0, <1>a, <1>b, <1>4 DEF TimerFiresBlind
<1>5. CASE FlushForStop(s)
  <2>1. RowsStay /\ LostGrows
    BY <1>a, <1>b, <1>5 DEF FlushForStop
  <2>2. LossKnown'
    BY <1>c, <1>5, <2>1 DEF FlushForStop, LossKnown, LostGrows, StopTask, IdleStop, StopGoto
  <2>3. QED
    BY <2>1, <2>2
<1>6. CASE MarkStopping(s)
  <2>1. RowsStay /\ LostGrows
    BY <1>a, <1>b, <1>6 DEF MarkStopping
  <2>2. LossKnown'
    BY <1>c, <1>6, <2>1 DEF MarkStopping, LossKnown, LostGrows, StopTask, IdleStop
  <2>3. QED
    BY <2>1, <2>2
<1>7. CASE MarkAbsent(s)
  BY <1>0, <1>a, <1>b, <1>7 DEF MarkAbsent
<1>8. CASE MarkFails(s)
  BY <1>0, <1>a, <1>b, <1>8 DEF MarkFails
<1>9. CASE RemoveSession(s)
  <2>1. RowsStay /\ LostGrows
    BY <1>a, <1>b, <1>9 DEF RemoveSession
  <2>2. LossKnown'
    BY <1>c, <1>9, <2>1 DEF RemoveSession, LossKnown, LostGrows, StopTask, IdleStop
  <2>3. QED
    BY <2>1, <2>2
<1>10. CASE LeaveAfterStop(s)
  BY <1>0, <1>a, <1>b, <1>10 DEF LeaveAfterStop
<1>11. CASE TailFlush(s)
  <2>1. RowsStay
    BY <1>11 DEF TailFlush
  <2>2. LostGrows
    BY <1>11 DEF TailFlush, LostGrows, TypeInv, AudioOK
  <2>3. CASE StopGoto(s, "finalize")
    BY <1>11, <2>2, <2>3 DEF TailFlush
  <2>4. CASE StopGoto(s, "loss") /\ lost' = [lost EXCEPT ![stop[s].target] = TRUE]
    BY <1>a, <1>c, <1>11, <2>2, <2>4
    DEF TailFlush, LossKnown, LostGrows, StopGoto, StopTask, TypeInv, AudioOK
  <2>5. QED
    BY <1>11, <2>1, <2>3, <2>4 DEF TailFlush
<1>12. CASE Finalize(s)
  BY <1>0, <1>a, <1>b, <1>12 DEF Finalize
<1>13. CASE RecordLoss(s)
  <2>1. LossKnown'
    BY <1>0, <1>13 DEF RecordLoss
  <2>2. lost[stop[s].target]
    BY <1>13 DEF RecordLoss, LossKnown
  <2>3. FailFrom(stop[s].target, {"stopping", "posted"})
    BY <1>0, <1>13 DEF RecordLoss
  <2>4. RowsStay
    BY <2>2, <2>3 DEF RowsStay, FailFrom, RecordingInv
  <2>5. QED
    BY <2>1, <2>4
<1>14. CASE Exhaust(s)
  BY <1>0, <1>a, <1>b, <1>14 DEF Exhaust, FailUnlessOver
<1>15. CASE ExhaustFails(s)
  BY <1>0, <1>a, <1>b, <1>15 DEF ExhaustFails
<1>16. QED
  BY <1>1, <1>2, <1>3, <1>4, <1>5, <1>6, <1>7, <1>8, <1>9, <1>10, <1>11, <1>12, <1>13, <1>14, <1>15 DEF StopTaskStep

LEMMA OthersLoss ==
  ASSUME "statement" \notin FaultKinds, RecordingInv, TypeInv, LossKnown,
         \/ \E m \in Meeting : \/ CleanupRetry(m) \/ CleanupForce(m) \/ FinishAbsent(m)
                               \/ Summarize(m) \/ RecoveryScan(m)
         \/ \E c \in recovery : RecoveryActs(c)
         \/ VoiceEvent \/ VoiceTick
  PROVE  LossKnown' /\ RowsStay
<1> USE LossWrites, RowWrites, LossMoves
<1>0. ~Disturb("statement")
  BY DEF Disturb
<1>a. ASSUME NEW k, CleanupStart(k) PROVE UNCHANGED cleanup
  BY <1>0, <1>a DEF CleanupStart
<1>1. ASSUME NEW m \in Meeting, CleanupRetry(m) \/ CleanupForce(m) PROVE FALSE
  BY <1>1 DEF CleanupRetry, CleanupForce, LossKnown
<1>2. ASSUME NEW m \in Meeting, FinishAbsent(m) PROVE LossKnown' /\ RowsStay
  BY <1>2 DEF FinishAbsent
<1>3. ASSUME NEW m \in Meeting, Summarize(m) PROVE LossKnown' /\ RowsStay
  BY <1>3 DEF Summarize, Live
<1>4. ASSUME NEW m \in Meeting, RecoveryScan(m) PROVE LossKnown' /\ RowsStay
  BY <1>4 DEF RecoveryScan
<1>5. ASSUME NEW c \in recovery, RecoveryActs(c) PROVE LossKnown' /\ RowsStay
  <2> DEFINE m == c.meeting
             stopped == [status EXCEPT ![m] = IF @ = "recording" /\ c.status = "recording"
                                              THEN "stopping" ELSE @]
  <2>1. LossKnown'
    BY <1>5 DEF RecoveryActs
  <2>2. UNCHANGED status \/ status' = stopped \/ FailFrom(m, {c.status})
    BY <1>5 DEF RecoveryActs
  <2>3. {c.status} \subseteq {"recording", "stopping"}
    BY DEF TypeInv, RestOK, Candidate
  <2>4. status' = stopped => RowsStay
    BY DEF RecordingInv, RowsStay
  <2>5. QED
    BY <2>1, <2>2, <2>3, <2>4
<1>6. CASE VoiceEvent
  BY <1>a, <1>6 DEF VoiceEvent
<1>7. CASE VoiceTick
  BY <1>7 DEF VoiceTick
<1>8. QED
  BY <1>1, <1>2, <1>3, <1>4, <1>5, <1>6, <1>7

(* As long as the store answers, a posted meeting fails only for audio that a  *)
(* stop has lost: no recovery that acts on an older status, no cleanup of a    *)
(* late start, no timer and no second stop takes a summary back.               *)
THEOREM PostedIsKept ==
  ASSUME "statement" \notin FaultKinds
  PROVE  Spec => PostedFailsForLossOnly
<1> DEFINE Inv == TypeInv /\ LossKnown /\ Unwritten
           Step == \A m \in Meeting :
                       status[m] = "posted" => status'[m] = "posted" \/ lost[m]
<1>1. Init => Inv
  BY TypeInit DEF Init, LossKnown, Unwritten, IdleStop
<1>2. RecordingInv /\ Inv /\ [Next]_vars => Inv' /\ [Step]_vars
  <2> SUFFICES ASSUME RecordingInv, Inv, [Next]_vars PROVE Inv' /\ [Step]_vars
    OBVIOUS
  <2>1. TypeInv'
    BY TypeStep
  <2>2. CASE UNCHANGED vars
    BY <2>1, <2>2 DEF vars, LossKnown, Unwritten
  <2>3. ASSUME NEW m \in Meeting, StartCommand(m) PROVE Inv' /\ Step
    <3>1. start[m] = "none" /\ status[m] = "none"
      BY <2>3 DEF StartCommand, Unwritten
    <3>2. /\ status' = [status EXCEPT ![m] = "recording"]
          /\ start' = [start EXCEPT ![m] = "setup"]
      BY <2>3 DEF StartCommand, SetStatus, StartGoto
    <3>3. Step
      BY <3>1, <3>2 DEF RecordingInv
    <3>4. Unwritten'
      BY <3>1, <3>2 DEF RecordingInv, Unwritten
    <3>5. LossKnown'
      BY <2>3 DEF StartCommand, LossKnown
    <3>6. QED
      BY <2>1, <3>3, <3>4, <3>5
  <2>4. ASSUME LossKnown', RowsStay, NoNewRecording PROVE Inv' /\ Step
    <3>1. Unwritten'
      BY <2>4 DEF Unwritten, RowsStay, NoNewRecording, StartQuiet
    <3>2. Step
      BY <2>4 DEF RowsStay
    <3>3. QED
      BY <2>1, <2>4, <3>1, <3>2
  <2>5. ASSUME NEW m \in Meeting, StartTask(m) PROVE Inv' /\ Step
    BY <2>4, <2>5, StartLoss, StartTaskQuiet
  <2>6. ASSUME NEW s \in Stopper, StopCommand(s) \/ ArmTimer(s) \/ StopTaskStep(s)
        PROVE  Inv' /\ Step
    BY <2>4, <2>6, StopLoss, StopTaskQuiet
  <2>7. QED
    BY <2>2, <2>3, <2>4, <2>5, <2>6, OthersLoss, OthersQuiet DEF Next
<1>3. QED
  BY <1>1, <1>2, RecordingInvariant, PTL DEF Spec, PostedFailsForLossOnly

-----------------------------------------------------------------------------

(***************************************************************************)
(* What is left of a recording once all its tasks have returned, for every  *)
(* number of meetings, stops and join attempts, whatever flushes, joins and *)
(* leaves fail: no session, no reservation, no audio in memory, and a loss  *)
(* on record; and no late leave hits the recording that follows.            *)
(*                                                                         *)
(* The store has to answer and the gateway to be ready once: after a failed *)
(* statement a start keeps its session on purpose, and a repeated ready     *)
(* event ends a recording that still has one (RecordingLifecycleAbsentLeave *)
(* shows what follows).                                                     *)
(***************************************************************************)

(***************************************************************************)
(* The inductive invariant.                                                *)
(***************************************************************************)

(* No cleanup is to be retried, no session was taken out for absence, and     *)
(* recovery has read nothing.                                                 *)
NothingPending ==
    recovery = {} /\ absent = {} /\ \A m \in Meeting : cleanup[m] = "none"

(* command_gate is held once. *)
GateHeldOnce ==
    \A s \in Stopper :
        HoldsGate(s) => /\ \A t \in Stopper : HoldsGate(t) => t = s
                        /\ \A m \in Meeting : start[m] # "reset"

(* A session belongs to a recording, or to a meeting whose stop is about to    *)
(* remove it.                                                                  *)
SessionRuns ==
    \A m \in Meeting :
        session = m => \/ status[m] = "recording"
                       \/ \E s \in Stopper : stop[s].pc = "remove" /\ stop[s].target = m

(* Where a start is tells what its meeting has. *)
StartHas ==
    \A m \in Meeting :
        /\ start[m] = "none" => status[m] = "none"
        /\ start[m] = "reset" => status[m] = "recording"
        /\ start[m] \in {"none", "setup", "insert", "reset"} => session # m
        /\ startup = m => start[m] \notin {"none", "done"}

(* Who holds command_gate aims at the recording, if there is one, ... *)
GateAims ==
    \A s \in Stopper, m \in Meeting :
        HoldsGate(s) /\ status[m] = "recording" => stop[s].target = m

(* ... has ended it before its session is removed, ... *)
StoppedIsOver ==
    \A s \in Stopper :
        stop[s].pc \in {"remove", "leave", "tail", "loss", "mark_retry"} => Over(stop[s].target)

(* ... and nobody has a session while the reset gate is held. *)
ResetAlone == \A s \in Stopper : HoldsReset(s) => session = None

(* Audio in memory is in the guild's session or in the hands of a stop. *)
UnsavedHeld ==
    \A m \in Meeting :
        unsaved[m] => \/ session = m
                      \/ \E s \in Stopper : /\ stop[s].pc \in {"leave", "tail"}
                                            /\ stop[s].carry /\ stop[s].target = m

(* A loss is on record, or about to be. *)
LossPending ==
    \A m \in Meeting :
        lost[m] => \/ status[m] = "failed"
                   \/ \E s \in Stopper : /\ stop[s].pc \in {"loss", "mark_retry"}
                                         /\ stop[s].target = m

CleanupInv ==
    /\ NothingPending
    /\ GateHeldOnce /\ SessionRuns /\ StartHas
    /\ GateAims /\ StoppedIsOver /\ ResetAlone
    /\ UnsavedHeld /\ LossPending

Undisturbed == "statement" \notin FaultKinds /\ "ready" \notin FaultKinds

(***************************************************************************)
(* What the building blocks do.                                            *)
(***************************************************************************)

(* The stop goes on to pc with what it has. *)
Goes(s, pc) ==
    /\ stop'[s].pc = pc /\ stop'[s].target = stop[s].target /\ stop'[s].carry = stop[s].carry
    /\ \A t \in Stopper : t # s => stop'[t] = stop[t]

Ends(s) ==
    /\ stop'[s].pc = "idle"
    /\ \A t \in Stopper : t # s => stop'[t] = stop[t]

(* What is left of m goes, and with its session the audio in it. *)
Removed(m) ==
    /\ startup' = Without(startup, m) /\ session' = Without(session, m)
    /\ \A k \in Meeting : /\ unsaved'[k] => unsaved[k] /\ (k = m => session # m)
                          /\ lost'[k] => lost[k] \/ (k = m /\ session = m)

LEMMA StopMoves ==
  ASSUME TypeInv, NEW s \in Stopper
  PROVE  /\ \A pc : StopGoto(s, pc) => Goes(s, pc)
         /\ StopEnds(s) => Ends(s)
<1>1. stop \in [Stopper -> StopTask]
  BY DEF TypeInv, StopOK
<1>2. ASSUME NEW pc, StopGoto(s, pc) PROVE Goes(s, pc)
  BY <1>1, <1>2 DEF StopGoto, Goes, StopTask
<1>3. ASSUME StopEnds(s) PROVE Ends(s)
  BY <1>1, <1>3 DEF StopEnds, Ends, IdleStop
<1>4. QED
  BY <1>2, <1>3

LEMMA LocalGoes ==
  ASSUME TypeInv, NEW m \in Meeting, ClearLocal(m)
  PROVE  Removed(m)
<1>1. unsaved \in [Meeting -> BOOLEAN] /\ lost \in [Meeting -> BOOLEAN]
  BY DEF TypeInv, AudioOK
<1>2. CASE session = m
  BY <1>1, <1>2 DEF ClearLocal, DropAudio, Removed
<1>3. CASE session # m
  BY <1>1, <1>3 DEF ClearLocal, Removed
<1>4. QED
  BY <1>2, <1>3

LEMMA CleanupGoes ==
  ASSUME Undisturbed, TypeInv, NEW m \in Meeting, CleanupStart(m)
  PROVE  FailFrom(m, {"recording"}) /\ Removed(m) /\ UNCHANGED cleanup
BY LocalGoes DEF Undisturbed, CleanupStart, Disturb

(* The facts about the lists of tasks that the steps below rest on. *)
LEMMA KnownTypes ==
  ASSUME RecordingInv, TypeInv
  PROVE  /\ status \in [Meeting -> Statuses] /\ start \in [Meeting -> StartSteps]
         /\ \A s \in Stopper : stop[s].pc # "idle" => stop[s].target \in Meeting
         /\ session \in Meeting \cup {None} /\ startup \in Meeting \cup {None}
         /\ None \notin Meeting
         /\ \A m \in Meeting : status[m] = "recording" => Active = m
BY RecordingIsNewest, MeetingIsNotNone DEF RecordingInv, TypeInv, StopOK, LocalOK

(***************************************************************************)
(* The starts.                                                             *)
(***************************************************************************)

LEMMA StartCommandCleans ==
  ASSUME RecordingInv, TypeInv, CleanupInv, NEW m \in Meeting, StartCommand(m)
  PROVE  CleanupInv'
<1> USE DEF CleanupInv, HoldsGate, HoldsReset, Over
<1>1. /\ status' = [status EXCEPT ![m] = "recording"]
      /\ start' = [start EXCEPT ![m] = "setup"]
      /\ startup' = m /\ start[m] = "none"
      /\ UNCHANGED <<session, unsaved, lost, cleanup, stop, absent, recovery>>
      /\ \A s \in Stopper : ~HoldsGate(s)
  BY DEF StartCommand, SetStatus, StartGoto, GateFree
<1>2. NothingPending' /\ GateHeldOnce' /\ StoppedIsOver' /\ GateAims'
  BY <1>1, KnownTypes DEF NothingPending, GateHeldOnce, StoppedIsOver, GateAims, StartHas
<1>3. SessionRuns' /\ StartHas' /\ ResetAlone'
  BY <1>1, KnownTypes DEF SessionRuns, StartHas, ResetAlone
<1>4. UnsavedHeld' /\ LossPending'
  BY <1>1, KnownTypes DEF UnsavedHeld, LossPending, StartHas
<1>5. QED
  BY <1>2, <1>3, <1>4

(* What is left of a meeting is given up under the gate: its session is still  *)
(* a recording's, and the recording fails with it.                             *)
LEMMA WithdrawnCleans ==
  ASSUME RecordingInv, TypeInv, CleanupInv, NEW m \in Meeting, GateFree,
         FailFrom(m, {"recording"}) \/ (UNCHANGED status /\ status[m] # "recording"),
         Removed(m), UNCHANGED <<stop, cleanup, absent, recovery>>,
         (start[m] # "none" /\ StartGoto(m, "done")) \/ UNCHANGED start
  PROVE  CleanupInv'
<1> USE DEF CleanupInv, HoldsGate, HoldsReset, Over
<1>1. /\ \A s \in Stopper : ~HoldsGate(s)
      /\ \A k \in Meeting : start[k] # "reset"
  BY DEF GateFree
<1>2. /\ \A k \in Meeting : k # m => status'[k] = status[k]
      /\ status'[m] = IF status[m] = "recording" THEN "failed" ELSE status[m]
  BY KnownTypes DEF FailFrom
<1>3. /\ \A k \in Meeting : k # m => start'[k] = start[k]
      /\ start'[m] = start[m] \/ (start[m] # "none" /\ start'[m] = "done")
  BY KnownTypes DEF StartGoto
<1>4. /\ startup' \in {startup, None} /\ startup' # m
      /\ session' \in {session, None} /\ session' # m
      /\ session # m => session' = session
  BY KnownTypes DEF Removed, Without
<1>5. session = m => status[m] = "recording"
  BY <1>1 DEF SessionRuns
<1>6. \A k \in Meeting : /\ unsaved'[k] => unsaved[k] /\ (session = k => session' = k)
                         /\ lost'[k] => lost[k] \/ (k = m /\ session = m)
  BY <1>4 DEF Removed
<1>7. NothingPending' /\ GateHeldOnce' /\ GateAims' /\ StoppedIsOver'
  BY <1>1, <1>2, KnownTypes DEF NothingPending, GateHeldOnce, GateAims, StoppedIsOver
<1>8. SessionRuns' /\ StartHas' /\ ResetAlone'
  BY <1>1, <1>2, <1>3, <1>4, <1>5, KnownTypes DEF SessionRuns, StartHas, ResetAlone
<1>9. UnsavedHeld'
  BY <1>6 DEF UnsavedHeld
<1>10. LossPending'
  BY <1>2, <1>5, <1>6 DEF LossPending
<1>11. QED
  BY <1>7, <1>8, <1>9, <1>10

(* A start goes on; only the step that takes the gate needs a recording. *)
LEMMA StartMoveCleans ==
  ASSUME RecordingInv, TypeInv, CleanupInv, NEW m \in Meeting, NEW pc \in StartSteps,
         start[m] # "none", StartGoto(m, pc), pc \notin {"none", "setup"},
         pc = "reset" => GateFree /\ status[m] = "recording",
         pc \in {"insert", "reset"} => start[m] \in {"setup", "insert"},
         pc = "done" => startup' # m,
         startup' \in {startup, None},
         UNCHANGED <<status, session, unsaved, lost, stop, cleanup, absent, recovery>>
  PROVE  CleanupInv'
<1> USE DEF CleanupInv, HoldsGate, HoldsReset, Over
<1>1. /\ \A k \in Meeting : k # m => start'[k] = start[k]
      /\ start'[m] = pc
  BY KnownTypes DEF StartGoto
<1>2. NothingPending' /\ GateHeldOnce' /\ GateAims' /\ StoppedIsOver'
  BY <1>1, KnownTypes DEF NothingPending, GateHeldOnce, GateAims, StoppedIsOver, GateFree
<1>3. StartHas'
  BY <1>1, KnownTypes DEF StartHas
<1>4. SessionRuns' /\ ResetAlone' /\ UnsavedHeld' /\ LossPending'
  BY KnownTypes DEF SessionRuns, ResetAlone, UnsavedHeld, LossPending
<1>5. QED
  BY <1>2, <1>3, <1>4

(* No session is replaced: the recording that holds the gate is the only one,  *)
(* and it has none yet.                                                        *)
LEMMA InsertCleans ==
  ASSUME RecordingInv, TypeInv, CleanupInv, NEW m \in Meeting, InsertSession(m)
  PROVE  CleanupInv'
<1> USE DEF CleanupInv, HoldsGate, HoldsReset, Over
<1>1. /\ start[m] = "reset" /\ status[m] = "recording" /\ session # m
      /\ \A s \in Stopper : ~HoldsGate(s) /\ ~HoldsReset(s)
  BY DEF InsertSession, StartHas, GateHeldOnce, ResetFree
<1>2. session = None
  BY <1>1, KnownTypes DEF SessionRuns
<1>3. /\ start' = [start EXCEPT ![m] = "join"] /\ session' = m
      /\ UNCHANGED <<status, startup, stop, cleanup, absent, recovery>>
  BY DEF InsertSession, StartGoto
<1>4. UNCHANGED <<unsaved, lost>>
  <2>1. \A k \in Meeting : session # k
    BY <1>2, KnownTypes
  <2>2. unsaved \in [Meeting -> BOOLEAN] /\ lost \in [Meeting -> BOOLEAN]
    BY DEF TypeInv, AudioOK
  <2>3. unsaved' = [k \in Meeting |-> unsaved[k]] /\ lost' = [k \in Meeting |-> lost[k]]
    BY <2>1, <2>2 DEF InsertSession
  <2>4. QED
    BY <2>2, <2>3
<1>5. NothingPending' /\ GateHeldOnce' /\ GateAims' /\ StoppedIsOver'
  BY <1>1, <1>3, KnownTypes DEF NothingPending, GateHeldOnce, GateAims, StoppedIsOver
<1>6. SessionRuns' /\ StartHas' /\ ResetAlone'
  BY <1>1, <1>2, <1>3, KnownTypes DEF SessionRuns, StartHas, ResetAlone
<1>7. UnsavedHeld' /\ LossPending'
  BY <1>1, <1>2, <1>3, <1>4, KnownTypes DEF UnsavedHeld, LossPending
<1>8. QED
  BY <1>5, <1>6, <1>7

LEMMA StartCleans ==
  ASSUME Undisturbed, RecordingInv, TypeInv, CleanupInv, NEW m \in Meeting, StartTask(m)
  PROVE  CleanupInv'
<1> USE CleanupGoes
<1>0. ASSUME GateFree, CleanupStart(m), start[m] # "none", StartGoto(m, "done"),
             UNCHANGED <<stop, absent, recovery>>
      PROVE  CleanupInv'
  BY <1>0, WithdrawnCleans
<1>1. CASE PrepareWorkspace(m)
  BY <1>0, <1>1, StartMoveCleans DEF PrepareWorkspace, StartSteps
<1>2. CASE CheckStillRecording(m)
  BY <1>0, <1>2, StartMoveCleans DEF CheckStillRecording, StartSteps
<1>3. CASE InsertSession(m)
  BY <1>3, InsertCleans
<1>4. CASE Join(m)
  BY <1>4, StartMoveCleans DEF Join, StartSteps
<1>5. CASE JoinReturns(m)
  BY <1>5, StartMoveCleans DEF JoinReturns, StartSteps
<1>6. CASE JoinCleanup(m)
  BY <1>0, <1>6, StartMoveCleans DEF JoinCleanup, StartSteps
<1>7. CASE JoinGivesUp(m)
  BY <1>0, <1>7 DEF JoinGivesUp
<1>8. CASE Verify(m)
  <2>1. CASE startup' = Without(startup, m) /\ UNCHANGED <<status, session, unsaved, lost, cleanup>>
    <3>1. startup' \in {startup, None} /\ startup' # m
      BY <2>1, KnownTypes DEF Without
    <3>2. QED
      BY <1>8, <2>1, <3>1, StartMoveCleans DEF Verify, StartSteps
  <2>2. CASE /\ status[m] \in {"stopping", "posted", "failed"}
             /\ ClearLocal(m) /\ UNCHANGED <<status, cleanup>>
    BY <1>8, <2>2, LocalGoes, WithdrawnCleans DEF Verify
  <2>3. CASE CleanupStart(m)
    BY <1>0, <1>8, <2>3 DEF Verify
  <2>4. QED
    BY <1>8, <2>1, <2>2, <2>3 DEF Verify
<1>9. CASE VerifyBlind(m)
  BY <1>9 DEF VerifyBlind, Disturb, Undisturbed
<1>10. QED
  BY <1>1, <1>2, <1>3, <1>4, <1>5, <1>6, <1>7, <1>8, <1>9 DEF StartTask

(***************************************************************************)
(* The stops.                                                              *)
(***************************************************************************)

(* A stop takes the gate for the meeting its lookup found. *)
LEMMA GateTakenCleans ==
  ASSUME RecordingInv, TypeInv, CleanupInv, NEW s \in Stopper, GateFree,
         stop[s].pc \in {"idle", "armed"}, stop'[s].pc \in {"flush", "exhaust"},
         stop'[s].target = Active, \A t \in Stopper : t # s => stop'[t] = stop[t],
         UNCHANGED <<status, startup, session, unsaved, lost, start, cleanup, absent, recovery>>
  PROVE  CleanupInv'
<1> USE DEF CleanupInv, HoldsGate, HoldsReset, Over
<1>1. NothingPending' /\ GateHeldOnce' /\ GateAims' /\ StoppedIsOver'
  BY KnownTypes DEF NothingPending, GateHeldOnce, GateAims, StoppedIsOver, GateFree
<1>2. SessionRuns' /\ StartHas' /\ ResetAlone'
  BY KnownTypes DEF SessionRuns, StartHas, ResetAlone
<1>3. UnsavedHeld' /\ LossPending'
  BY KnownTypes DEF UnsavedHeld, LossPending
<1>4. QED
  BY <1>1, <1>2, <1>3

(* A stop waits or ends from a step in which it owes nothing. *)
LEMMA RestCleans ==
  ASSUME RecordingInv, TypeInv, CleanupInv, NEW s \in Stopper,
         stop[s].pc \notin {"remove", "leave", "tail", "loss", "mark_retry"},
         stop'[s].pc \in {"idle", "armed"}, \A t \in Stopper : t # s => stop'[t] = stop[t],
         startup' \in {startup, None},
         UNCHANGED <<status, session, unsaved, lost, start, cleanup, absent, recovery>>
  PROVE  CleanupInv'
<1> USE DEF CleanupInv, HoldsGate, HoldsReset, Over
<1>1. NothingPending' /\ GateHeldOnce' /\ GateAims' /\ StoppedIsOver'
  BY KnownTypes DEF NothingPending, GateHeldOnce, GateAims, StoppedIsOver
<1>2. SessionRuns' /\ StartHas' /\ ResetAlone'
  BY KnownTypes DEF SessionRuns, StartHas, ResetAlone
<1>3. UnsavedHeld' /\ LossPending'
  BY KnownTypes DEF UnsavedHeld, LossPending
<1>4. QED
  BY <1>1, <1>2, <1>3

(* A deferred job that could not be enqueued is tried again. *)
LEMMA RetryCleans ==
  ASSUME RecordingInv, TypeInv, CleanupInv, NEW s \in Stopper,
         stop[s].pc \in {"finalize", "enqueue_retry"}, Goes(s, "enqueue_retry"),
         UNCHANGED <<status, startup, session, unsaved, lost, start, cleanup, absent, recovery>>
  PROVE  CleanupInv'
<1> USE DEF CleanupInv, HoldsGate, HoldsReset, Over, Goes
<1>1. NothingPending' /\ GateHeldOnce' /\ GateAims' /\ StoppedIsOver'
  BY KnownTypes DEF NothingPending, GateHeldOnce, GateAims, StoppedIsOver
<1>2. SessionRuns' /\ StartHas' /\ ResetAlone'
  BY KnownTypes DEF SessionRuns, StartHas, ResetAlone
<1>3. UnsavedHeld' /\ LossPending'
  BY KnownTypes DEF UnsavedHeld, LossPending
<1>4. QED
  BY <1>1, <1>2, <1>3

(* The grace is over.  If another meeting is active, the target has no session *)
(* any more: it would be a recording's.                                        *)
LEMMA TimerCleans ==
  ASSUME RecordingInv, TypeInv, CleanupInv, NEW s \in Stopper, TimerFires(s)
  PROVE  CleanupInv'
<1> DEFINE m == stop[s].target
<1>1. stop[s].pc = "armed" /\ GateFree /\ m \in Meeting
  BY KnownTypes DEF TimerFires
<1>2. UNCHANGED <<status, start, cleanup, absent, recovery>>
  BY DEF TimerFires
<1>3. CASE Active = m
  <2>1. UNCHANGED <<startup, session, unsaved, lost>>
    BY <1>3 DEF TimerFires
  <2>2. Goes(s, "flush") \/ Goes(s, "exhaust") \/ Ends(s)
    BY <1>3, StopMoves DEF TimerFires
  <2>3. QED
    BY <1>1, <1>2, <1>3, <2>1, <2>2, GateTakenCleans, RestCleans DEF Goes, Ends
<1>4. CASE Active # m
  <2>1. session # m
    BY <1>1, <1>4, KnownTypes DEF CleanupInv, SessionRuns, GateFree, HoldsGate
  <2>2. startup' \in {startup, None} /\ UNCHANGED <<session, unsaved, lost>>
    BY <1>4, <2>1 DEF TimerFires, ClearLocal, ClearReservation, Without
  <2>3. Ends(s)
    BY <1>4, StopMoves DEF TimerFires
  <2>4. QED
    BY <1>1, <1>2, <2>2, <2>3, RestCleans DEF Ends
<1>5. QED
  BY <1>3, <1>4

LEMMA FlushCleans ==
  ASSUME RecordingInv, TypeInv, CleanupInv, NEW s \in Stopper, FlushForStop(s)
  PROVE  CleanupInv'
<1> USE DEF CleanupInv, HoldsGate, HoldsReset, Over
<1>1. /\ stop[s].pc = "flush"
      /\ UNCHANGED <<status, startup, session, lost, start, cleanup, absent, recovery>>
  BY DEF FlushForStop
<1>2. Goes(s, "mark")
  BY DEF FlushForStop, StopGoto, Goes, TypeInv, StopOK, StopTask
<1>3. \A k \in Meeting : unsaved'[k] => unsaved[k]
  BY DEF FlushForStop, TypeInv, AudioOK
<1>4. NothingPending' /\ GateHeldOnce' /\ GateAims' /\ StoppedIsOver'
  BY <1>1, <1>2, KnownTypes DEF NothingPending, GateHeldOnce, GateAims, StoppedIsOver, Goes
<1>5. SessionRuns' /\ StartHas' /\ ResetAlone'
  BY <1>1, <1>2, KnownTypes DEF SessionRuns, StartHas, ResetAlone, Goes
<1>6. UnsavedHeld' /\ LossPending'
  BY <1>1, <1>2, <1>3, KnownTypes DEF UnsavedHeld, LossPending, Goes
<1>7. QED
  BY <1>4, <1>5, <1>6

(* The row is written before the session goes, so that a session without a     *)
(* recording has a stop that is about to remove it.                            *)
LEMMA MarkCleans ==
  ASSUME RecordingInv, TypeInv, CleanupInv, NEW s \in Stopper, MarkStopping(s)
  PROVE  CleanupInv'
<1> USE DEF CleanupInv, HoldsGate, HoldsReset, Over
<1> DEFINE m == stop[s].target
<1>1. /\ stop[s].pc = "mark" /\ m \in Meeting /\ Live(m)
      /\ UNCHANGED <<startup, session, unsaved, lost, start, cleanup, absent, recovery>>
  BY KnownTypes, ActiveIsLive DEF MarkStopping
<1>2. Goes(s, "remove")
  BY DEF MarkStopping, Goes, TypeInv, StopOK, StopTask
<1>3. PICK value \in {"stopping", "posted"} : status' = [status EXCEPT ![m] = value]
  BY DEF MarkStopping, SetStatus
<1>4. /\ \A k \in Meeting : k # m => status'[k] = status[k]
      /\ status'[m] \in {"stopping", "posted"}
  BY <1>1, <1>3, KnownTypes
<1>5. NothingPending' /\ GateHeldOnce' /\ GateAims' /\ StoppedIsOver'
  BY <1>1, <1>2, <1>4, KnownTypes
  DEF NothingPending, GateHeldOnce, GateAims, StoppedIsOver, Goes
<1>6. SessionRuns' /\ StartHas' /\ ResetAlone'
  BY <1>1, <1>2, <1>4, KnownTypes DEF SessionRuns, StartHas, ResetAlone, GateHeldOnce, Goes, Live
<1>7. UnsavedHeld' /\ LossPending'
  BY <1>1, <1>2, <1>4, KnownTypes DEF UnsavedHeld, LossPending, Goes, Live
<1>8. QED
  BY <1>5, <1>6, <1>7

(* A timer that finds its target gone has nothing to take. *)
LEMMA AbsentCleans ==
  ASSUME RecordingInv, TypeInv, CleanupInv, NEW s \in Stopper, MarkAbsent(s)
  PROVE  CleanupInv'
<1> DEFINE m == stop[s].target
<1>1. stop[s].pc = "mark" /\ Active # m /\ m \in Meeting
  BY KnownTypes DEF MarkAbsent
<1>2. session # m
  BY <1>1, KnownTypes DEF CleanupInv, SessionRuns, GateHeldOnce, HoldsGate
<1>3. startup' \in {startup, None} /\ UNCHANGED <<session, absent>>
  BY <1>2 DEF MarkAbsent, TakeAbsent, Without
<1>4. Ends(s)
  BY StopMoves DEF MarkAbsent
<1>5. UNCHANGED <<status, unsaved, lost, start, cleanup, recovery>>
  BY DEF MarkAbsent
<1>6. QED
  BY <1>1, <1>3, <1>4, <1>5, RestCleans DEF Ends

(* The session that is removed is the target's, if there is one: a successor's *)
(* needs a recording, and whoever holds the gate aims at that.                 *)
LEMMA RemoveCleans ==
  ASSUME RecordingInv, TypeInv, CleanupInv, NEW s \in Stopper, RemoveSession(s)
  PROVE  CleanupInv'
<1> USE DEF CleanupInv, HoldsGate, HoldsReset, Over
<1> DEFINE m == stop[s].target
<1>1. /\ stop[s].pc = "remove" /\ m \in Meeting
      /\ \A t \in Stopper : ~HoldsReset(t)
      /\ UNCHANGED <<status, unsaved, lost, start, cleanup, absent, recovery>>
  BY KnownTypes DEF RemoveSession, ResetFree
<1>2. session \in {m, None}
  BY <1>1, KnownTypes DEF SessionRuns, GateAims, GateHeldOnce
<1>3. session' = None /\ startup' \in {startup, None}
  BY <1>2 DEF RemoveSession, Without
<1>4. /\ stop'[s].pc = "leave" /\ stop'[s].target = m
      /\ \A t \in Stopper : t # s => stop'[t] = stop[t]
  BY DEF RemoveSession, TypeInv, StopOK, StopTask
<1>5. session = m => stop'[s].carry
  BY DEF RemoveSession, TypeInv, StopOK, StopTask
<1>6. NothingPending' /\ GateHeldOnce' /\ GateAims' /\ StoppedIsOver'
  BY <1>1, <1>4, KnownTypes DEF NothingPending, GateHeldOnce, GateAims, StoppedIsOver
<1>7. SessionRuns' /\ StartHas' /\ ResetAlone'
  BY <1>1, <1>3, <1>4, KnownTypes DEF SessionRuns, StartHas, ResetAlone
<1>8. UnsavedHeld' /\ LossPending'
  BY <1>1, <1>2, <1>4, <1>5, KnownTypes DEF UnsavedHeld, LossPending
<1>9. QED
  BY <1>6, <1>7, <1>8

LEMMA LeaveCleans ==
  ASSUME RecordingInv, TypeInv, CleanupInv, NEW s \in Stopper, LeaveAfterStop(s)
  PROVE  CleanupInv'
<1> USE DEF CleanupInv, HoldsGate, HoldsReset, Over
<1>1. /\ stop[s].pc = "leave" /\ Goes(s, "tail")
      /\ UNCHANGED <<status, startup, session, unsaved, lost, start, cleanup, absent, recovery>>
  BY StopMoves DEF LeaveAfterStop
<1>2. NothingPending' /\ GateHeldOnce' /\ GateAims' /\ StoppedIsOver'
  BY <1>1, KnownTypes DEF NothingPending, GateHeldOnce, GateAims, StoppedIsOver, Goes
<1>3. SessionRuns' /\ StartHas' /\ ResetAlone'
  BY <1>1, KnownTypes DEF SessionRuns, StartHas, ResetAlone, Goes
<1>4. UnsavedHeld' /\ LossPending'
  BY <1>1, KnownTypes DEF UnsavedHeld, LossPending, Goes
<1>5. QED
  BY <1>2, <1>3, <1>4

(* The last flush: what the stop carries is on disk, or lost with a stop left  *)
(* to say so.                                                                  *)
LEMMA TailCleans ==
  ASSUME RecordingInv, TypeInv, CleanupInv, NEW s \in Stopper, TailFlush(s)
  PROVE  CleanupInv'
<1> USE DEF CleanupInv, HoldsGate, HoldsReset, Over
<1> DEFINE m == stop[s].target
<1>1. /\ stop[s].pc = "tail" /\ m \in Meeting
      /\ UNCHANGED <<status, startup, session, start, cleanup, absent, recovery>>
  BY KnownTypes DEF TailFlush
<1>2. \A k \in Meeting : unsaved'[k] => unsaved[k] /\ (k = m => ~stop[s].carry)
  BY DEF TailFlush, TypeInv, AudioOK
<1>3. \/ Goes(s, "finalize") /\ UNCHANGED lost
      \/ Goes(s, "loss") /\ lost' = [lost EXCEPT ![m] = TRUE]
  BY StopMoves DEF TailFlush
<1>4. \A k \in Meeting : lost'[k] => lost[k] \/ (k = m /\ Goes(s, "loss"))
  BY <1>3 DEF TypeInv, AudioOK
<1>5. Goes(s, "finalize") \/ Goes(s, "loss")
  BY <1>3
<1>6. NothingPending' /\ GateHeldOnce' /\ GateAims' /\ StoppedIsOver'
  BY <1>1, <1>5, KnownTypes DEF NothingPending, GateHeldOnce, GateAims, StoppedIsOver, Goes
<1>7. SessionRuns' /\ StartHas' /\ ResetAlone'
  BY <1>1, <1>5, KnownTypes DEF SessionRuns, StartHas, ResetAlone, Goes
<1>8. UnsavedHeld'
  BY <1>1, <1>2, <1>5, KnownTypes DEF UnsavedHeld, Goes
<1>9. LossPending'
  BY <1>1, <1>4, <1>5, KnownTypes DEF LossPending, Goes
<1>10. QED
  BY <1>6, <1>7, <1>8, <1>9

(* The loss is written: the meeting is over, and posted or not it fails. *)
LEMMA LossCleans ==
  ASSUME Undisturbed, RecordingInv, TypeInv, CleanupInv, NEW s \in Stopper, RecordLoss(s)
  PROVE  CleanupInv'
<1> USE DEF CleanupInv, HoldsGate, HoldsReset, Over
<1> DEFINE m == stop[s].target
<1>1. /\ stop[s].pc \in {"loss", "mark_retry"} /\ m \in Meeting
      /\ UNCHANGED <<startup, session, unsaved, lost, start, cleanup, absent, recovery>>
  BY KnownTypes DEF RecordLoss
<1>2. Ends(s) /\ FailFrom(m, {"stopping", "posted"})
  BY StopMoves DEF RecordLoss, Disturb, Undisturbed
<1>3. /\ \A k \in Meeting : k # m => status'[k] = status[k]
      /\ status[m] # "recording" /\ status'[m] = "failed" /\ status[m] # "none"
  BY <1>1, <1>2, KnownTypes DEF FailFrom, StoppedIsOver
<1>4. NothingPending' /\ GateHeldOnce' /\ GateAims' /\ StoppedIsOver'
  BY <1>1, <1>2, <1>3, KnownTypes
  DEF NothingPending, GateHeldOnce, GateAims, StoppedIsOver, Ends
<1>5. SessionRuns' /\ StartHas' /\ ResetAlone'
  BY <1>1, <1>2, <1>3, KnownTypes DEF SessionRuns, StartHas, ResetAlone, Ends
<1>6. UnsavedHeld' /\ LossPending'
  BY <1>1, <1>2, <1>3, KnownTypes DEF UnsavedHeld, LossPending, Ends
<1>7. QED
  BY <1>4, <1>5, <1>6

(* A timer gives up under both gates: the recording fails with its session. *)
LEMMA ExhaustCleans ==
  ASSUME RecordingInv, TypeInv, CleanupInv, NEW s \in Stopper, Exhaust(s)
  PROVE  CleanupInv'
<1> USE DEF CleanupInv, HoldsGate, HoldsReset, Over
<1> DEFINE m == stop[s].target
<1>1. /\ stop[s].pc = "exhaust" /\ m \in Meeting
      /\ \A t \in Stopper : ~HoldsReset(t)
      /\ UNCHANGED <<start, cleanup, absent, recovery>>
  BY KnownTypes DEF Exhaust, ResetFree
<1>2. Ends(s) /\ Removed(m) /\ FailFrom(m, {"recording", "stopping"})
  BY <1>1, StopMoves, LocalGoes DEF Exhaust, FailUnlessOver
<1>3. /\ \A k \in Meeting : k # m => status'[k] = status[k]
      /\ status'[m] = IF Live(m) THEN "failed" ELSE status[m]
  BY <1>1, <1>2, KnownTypes DEF FailFrom, Live
<1>4. session = m => status[m] = "recording"
  BY <1>1 DEF SessionRuns, GateHeldOnce
<1>5. /\ startup' \in {startup, None} /\ session' \in {session, None} /\ session' # m
      /\ session # m => session' = session
  BY <1>1, <1>2, KnownTypes DEF Removed, Without
<1>6. \A k \in Meeting : /\ unsaved'[k] => unsaved[k] /\ (session = k => session' = k)
                         /\ lost'[k] => lost[k] \/ (k = m /\ session = m)
  BY <1>2, <1>5 DEF Removed
<1>7. NothingPending' /\ GateHeldOnce' /\ GateAims' /\ StoppedIsOver'
  BY <1>1, <1>2, <1>3, KnownTypes
  DEF NothingPending, GateHeldOnce, GateAims, StoppedIsOver, Ends, Live
<1>8. SessionRuns' /\ StartHas' /\ ResetAlone'
  BY <1>1, <1>2, <1>3, <1>5, KnownTypes
  DEF SessionRuns, StartHas, ResetAlone, GateHeldOnce, Ends, Live
<1>9. UnsavedHeld'
  BY <1>1, <1>2, <1>6, KnownTypes DEF UnsavedHeld, Ends
<1>10. LossPending'
  BY <1>1, <1>2, <1>3, <1>4, <1>6, KnownTypes DEF LossPending, Ends, Live
<1>11. QED
  BY <1>7, <1>8, <1>9, <1>10

LEMMA StopCleans ==
  ASSUME Undisturbed, RecordingInv, TypeInv, CleanupInv, NEW s \in Stopper,
         StopCommand(s) \/ ArmTimer(s) \/ StopTaskStep(s)
  PROVE  CleanupInv'
<1>0. ~Disturb("statement")
  BY DEF Disturb, Undisturbed
<1>1. CASE StopCommand(s)
  <2>1. /\ stop'[s].pc = "flush" /\ stop'[s].target = Active
        /\ \A t \in Stopper : t # s => stop'[t] = stop[t]
    BY <1>1 DEF StopCommand, IdleStop, TypeInv, StopOK
  <2>2. QED
    BY <1>1, <2>1, GateTakenCleans DEF StopCommand
<1>2. CASE ArmTimer(s)
  <2>1. /\ stop'[s].pc = "armed"
        /\ \A t \in Stopper : t # s => stop'[t] = stop[t]
    BY <1>2 DEF ArmTimer, IdleStop, TypeInv, StopOK
  <2>2. QED
    BY <1>2, <2>1, RestCleans DEF ArmTimer
<1>3. CASE Finalize(s)
  <2>1. stop[s].pc \in {"finalize", "enqueue_retry"} /\ (Ends(s) \/ Goes(s, "enqueue_retry"))
    BY <1>3, StopMoves DEF Finalize
  <2>2. QED
    BY <1>3, <2>1, RestCleans, RetryCleans DEF Finalize, Ends
<1>4. CASE TimerFiresBlind(s) \/ MarkFails(s) \/ ExhaustFails(s)
  BY <1>0, <1>4 DEF TimerFiresBlind, MarkFails, ExhaustFails
<1>5. QED
  BY <1>1, <1>2, <1>3, <1>4, TimerCleans, FlushCleans, MarkCleans, AbsentCleans, RemoveCleans,
     LeaveCleans, TailCleans, LossCleans, ExhaustCleans DEF StopTaskStep

(***************************************************************************)
(* The other actors, and the theorems.                                     *)
(***************************************************************************)

(* A voice event finds a session only of a recording, which is active. *)
LEMMA EventCleans ==
  ASSUME Undisturbed, RecordingInv, TypeInv, CleanupInv, VoiceEvent
  PROVE  CleanupInv'
<1>1. Active = None /\ GateFree
  BY DEF VoiceEvent
<1>2. session = None
  BY <1>1, KnownTypes DEF CleanupInv, SessionRuns, GateFree, HoldsGate
<1>3. startup \in Meeting /\ CleanupStart(startup)
  BY <1>2, KnownTypes DEF VoiceEvent
<1>4. UNCHANGED <<start, stop, absent, recovery>>
  BY <1>2 DEF VoiceEvent
<1>5. QED
  BY <1>1, <1>3, <1>4, CleanupGoes, WithdrawnCleans

LEMMA VoiceCleans ==
  ASSUME RecordingInv, TypeInv, CleanupInv, VoiceTick
  PROVE  CleanupInv'
<1> USE DEF CleanupInv, HoldsGate, HoldsReset, Over
<1>1. UNCHANGED <<status, startup, session, lost, start, stop, cleanup, absent, recovery>>
  BY DEF VoiceTick
<1>2. \A k \in Meeting : unsaved'[k] => unsaved[k] \/ session = k
  BY DEF VoiceTick, TypeInv, AudioOK
<1>3. NothingPending' /\ GateHeldOnce' /\ GateAims' /\ StoppedIsOver'
  BY <1>1 DEF NothingPending, GateHeldOnce, GateAims, StoppedIsOver
<1>4. SessionRuns' /\ StartHas' /\ ResetAlone'
  BY <1>1 DEF SessionRuns, StartHas, ResetAlone
<1>5. UnsavedHeld' /\ LossPending'
  BY <1>1, <1>2 DEF UnsavedHeld, LossPending
<1>6. QED
  BY <1>3, <1>4, <1>5

(* The pipeline ends a meeting that is stopping, and no other. *)
LEMMA SummarizeCleans ==
  ASSUME RecordingInv, TypeInv, CleanupInv, NEW m \in Meeting, Summarize(m)
  PROVE  CleanupInv'
<1> USE DEF CleanupInv, HoldsGate, HoldsReset, Over
<1>1. UNCHANGED <<startup, session, unsaved, lost, start, stop, cleanup, absent, recovery>>
  BY DEF Summarize
<1>2. /\ \A k \in Meeting : k # m => status'[k] = status[k]
      /\ \/ status'[m] = status[m]
         \/ status[m] = "stopping" /\ status'[m] \in {"posted", "failed"}
  BY KnownTypes DEF Summarize, SetStatus
<1>3. NothingPending' /\ GateHeldOnce' /\ GateAims' /\ StoppedIsOver'
  BY <1>1, <1>2, KnownTypes DEF NothingPending, GateHeldOnce, GateAims, StoppedIsOver
<1>4. SessionRuns' /\ StartHas' /\ ResetAlone'
  BY <1>1, <1>2, KnownTypes DEF SessionRuns, StartHas, ResetAlone
<1>5. UnsavedHeld' /\ LossPending'
  BY <1>1, <1>2, KnownTypes DEF UnsavedHeld, LossPending
<1>6. QED
  BY <1>3, <1>4, <1>5

LEMMA CleanupStep ==
  ASSUME Undisturbed, RecordingInv, TypeInv, CleanupInv, [Next]_vars
  PROVE  CleanupInv'
<1>1. CASE UNCHANGED vars
  BY <1>1 DEF vars, CleanupInv, NothingPending, GateHeldOnce, SessionRuns, StartHas, GateAims,
              StoppedIsOver, ResetAlone, UnsavedHeld, LossPending, HoldsGate, HoldsReset, Over
<1>2. ASSUME NEW m \in Meeting,
             CleanupRetry(m) \/ CleanupForce(m) \/ FinishAbsent(m) \/ RecoveryScan(m)
      PROVE  FALSE
  BY <1>2 DEF CleanupRetry, CleanupForce, FinishAbsent, RecoveryScan, Disturb, Undisturbed,
              CleanupInv, NothingPending
<1>3. ~\E c \in recovery : RecoveryActs(c)
  BY DEF CleanupInv, NothingPending
<1>4. QED
  BY <1>1, <1>2, <1>3, StartCommandCleans, StartCleans, StopCleans, EventCleans, VoiceCleans,
     SummarizeCleans DEF Next

LEMMA CleanupInit == Init => CleanupInv
<1> SUFFICES ASSUME Init PROVE CleanupInv
  OBVIOUS
<1>1. /\ \A m \in Meeting : /\ status[m] = "none" /\ start[m] = "none" /\ cleanup[m] = "none"
                            /\ unsaved[m] = FALSE /\ lost[m] = FALSE
      /\ \A s \in Stopper : stop[s].pc = "idle"
      /\ session = None /\ startup = None /\ absent = {} /\ recovery = {}
  BY DEF Init, IdleStop
<1>2. NothingPending /\ GateHeldOnce /\ StoppedIsOver /\ GateAims /\ ResetAlone
  BY <1>1 DEF NothingPending, GateHeldOnce, StoppedIsOver, GateAims, ResetAlone, HoldsGate,
              HoldsReset
<1>3. SessionRuns /\ StartHas /\ UnsavedHeld /\ LossPending
  BY <1>1, MeetingIsNotNone DEF SessionRuns, StartHas, UnsavedHeld, LossPending
<1>4. QED
  BY <1>2, <1>3 DEF CleanupInv

(* Sessions, reservations and audio always have somebody who will see to them. *)
THEOREM CleanupInvariant ==
  ASSUME Undisturbed
  PROVE  Spec => [](RecordingInv /\ TypeInv /\ CleanupInv)
<1>1. RecordingInv /\ TypeInv /\ CleanupInv /\ [Next]_vars => TypeInv' /\ CleanupInv'
  BY TypeStep, CleanupStep
<1>2. QED
  BY <1>1, TypeInit, CleanupInit, RecordingInvariant, PTL DEF Spec

(* As long as the store answers and the gateway is ready once, a meeting that  *)
(* is over and whose tasks have returned has no session, no reservation and no *)
(* audio in memory, however starts, joins, stops and timers overlap.           *)
THEOREM NothingStays ==
  ASSUME Undisturbed
  PROVE  Spec => []NothingLeftBehind
<1>1. ASSUME RecordingInv, TypeInv, CleanupInv, NEW m \in Meeting, Over(m), Settled(m)
      PROVE  session # m /\ startup # m /\ ~unsaved[m]
  <2>1. \A s \in Stopper : stop[s].target # m
    BY <1>1 DEF Settled
  <2>2. session # m
    BY <1>1, <2>1 DEF CleanupInv, SessionRuns, Over
  <2>3. startup # m
    BY <1>1 DEF CleanupInv, StartHas, Settled
  <2>4. ~unsaved[m]
    BY <1>1, <2>1, <2>2 DEF CleanupInv, UnsavedHeld
  <2>5. QED
    BY <2>2, <2>3, <2>4
<1>2. RecordingInv /\ TypeInv /\ CleanupInv => NothingLeftBehind
  BY <1>1 DEF NothingLeftBehind
<1>3. QED
  BY <1>2, CleanupInvariant, PTL

(* Under the same conditions a meeting whose audio was dropped, by a stop, a    *)
(* timer or a start that failed, has failed once its tasks have returned.       *)
THEOREM LossIsRecorded ==
  ASSUME Undisturbed
  PROVE  Spec => []LossRecorded
<1>1. CleanupInv => LossRecorded
  BY DEF CleanupInv, LossPending, LossRecorded, Settled
<1>2. QED
  BY <1>1, CleanupInvariant, PTL

(* Under the same conditions nobody leaves voice under a recording whose start  *)
(* has returned, while it has its session: a stop that leaves holds the reset   *)
(* gate, under which there is no session, and a start that leaves has found     *)
(* that the session is its own or nobody's.                                     *)
THEOREM VoiceIsKept ==
  ASSUME Undisturbed
  PROVE  Spec => SuccessorVoiceKept
<1>1. ASSUME RecordingInv, TypeInv, CleanupInv, Next, NEW m \in Meeting,
             status[m] = "recording", start[m] = "done", session = m, call = m, session' = m
      PROVE  call' # None
  <2>0. /\ m # None /\ Active = m
        /\ \A k \in Meeting : status[k] = "recording" => k = m
        /\ \A k \in Meeting : start[k] # "done" => k # m
    BY <1>1, KnownTypes
  <2>1. ASSUME NEW k \in Meeting, StartTask(k) PROVE call' # None
    <3>0. ~Disturb("statement")
      BY DEF Disturb, Undisturbed
    <3>1. CASE Verify(k)
      BY <1>1, <2>0, <3>1 DEF Verify
    <3>2. CASE JoinCleanup(k)
      BY <1>1, <2>0, <3>2 DEF JoinCleanup
    <3>3. CASE Join(k)
      BY <3>3, MeetingIsNotNone DEF Join
    <3>4. CASE PrepareWorkspace(k) \/ CheckStillRecording(k) \/ InsertSession(k)
               \/ JoinReturns(k) \/ JoinGivesUp(k)
      BY <1>1, <2>0, <3>4
      DEF PrepareWorkspace, CheckStillRecording, InsertSession, JoinReturns, JoinGivesUp
    <3>5. QED
      BY <2>1, <3>0, <3>1, <3>2, <3>3, <3>4 DEF StartTask, VerifyBlind
  <2>2. ASSUME NEW s \in Stopper, StopCommand(s) \/ ArmTimer(s) \/ StopTaskStep(s)
        PROVE  call' # None
    <3>1. ~LeaveAfterStop(s)
      BY <1>1, <2>0 DEF LeaveAfterStop, CleanupInv, ResetAlone, HoldsReset
    <3>2. ~Exhaust(s)
      BY <1>1, <2>0
      DEF Exhaust, ClearLocal, Without, CleanupInv, GateAims, HoldsGate
    <3>3. UNCHANGED call
      BY <2>2, <3>1, <3>2
      DEF StopCommand, ArmTimer, StopTaskStep, TimerFires, TimerFiresBlind, FlushForStop,
          MarkStopping, MarkAbsent, MarkFails, RemoveSession, TailFlush, Finalize, RecordLoss,
          ExhaustFails
    <3>4. QED
      BY <1>1, <2>0, <3>3
  <2>3. ASSUME NEW k \in Meeting, StartCommand(k) \/ Summarize(k) PROVE UNCHANGED call
    BY <2>3 DEF StartCommand, Summarize
  <2>4. ASSUME NEW k \in Meeting,
               CleanupRetry(k) \/ CleanupForce(k) \/ FinishAbsent(k) \/ RecoveryScan(k)
        PROVE  FALSE
    BY <1>1, <2>4 DEF CleanupRetry, CleanupForce, FinishAbsent, RecoveryScan, Disturb,
                      Undisturbed, CleanupInv, NothingPending
  <2>5. ~\E c \in recovery : RecoveryActs(c)
    BY <1>1 DEF CleanupInv, NothingPending
  <2>6. VoiceEvent \/ VoiceTick => UNCHANGED call
    BY DEF VoiceEvent, VoiceTick
  <2>7. QED
    BY <1>1, <2>0, <2>1, <2>2, <2>3, <2>4, <2>5, <2>6 DEF Next
<1>2. RecordingInv /\ TypeInv /\ CleanupInv /\ [Next]_vars => [SuccessorVoiceKeptStep]_vars
  BY <1>1 DEF SuccessorVoiceKeptStep
<1>3. QED
  BY <1>2, CleanupInvariant, PTL DEF Spec, SuccessorVoiceKept

=============================================================================
