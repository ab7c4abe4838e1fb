------------------------------ MODULE AutoStop ------------------------------
(***************************************************************************)
(* The end of a recording whose channel is empty.  Every change in a voice *)
(* channel is an event; its handler finds the recording, counts the people *)
(* in its channel, asks the database for the grace period and only then    *)
(* takes the lock of the guild's AutoStopState to write down what it       *)
(* counted.  An empty channel starts a task that sleeps through the grace  *)
(* period, looks again and stops the recording.  Events are what the whole *)
(* mechanism runs on: in an empty channel nothing happens any more.        *)
(*                                                                         *)
(* RecordingLifecycle has the stop itself with the gates and the other     *)
(* ways a recording ends; here it is one step that succeeds or fails.      *)
(***************************************************************************)
EXTENDS Integers

CONSTANTS
  Meeting,     \* recordings of the guild, one after the other
  Event,       \* slots for the events under way
  None,        \* no meeting
  Grace,       \* auto_stop_grace_seconds, in steps of the clock
  MaxMisses,   \* AUTO_STOP_GRACE_MAX_CACHE_MISS_CHECKS
  MaxFailures, \* RECORDING_STOP_MAX_RETRIES, RECORDING_LOOKUP_MAX_RETRIES
  MaxCleanups, \* RECORDING_TERMINAL_CLEANUP_MAX_RETRIES
  MaxUnmarked, \* bound on how often marking a recording failed fails
  MaxMoves,    \* bound on how often people come and go
  Overlap,     \* the handlers of two events may run at once
  EventFaults, \* the lookup of an event may fail
  TimerFaults  \* lookups and stops of the timer may fail

GraceAssumption == \A limit \in {Grace, MaxMisses, MaxFailures, MaxCleanups} : limit \in Nat \ {0}

VARIABLES
  active,  \* the guild's recording in the database, or None
  outcome, \* how each recording ended, and which was left by its timer
  present, \* are there people in the channel?
  cached,  \* is the guild in the voice state cache?
  auto,    \* auto_stop_states of the guild
  timers,  \* grace timer tasks
  event,   \* the event handlers
  unmarked, \* how often marking a recording failed has failed
  moves    \* how often people came and went

vars == <<active, outcome, present, cached, auto, timers, event, unmarked, moves>>

-----------------------------------------------------------------------------
(* AutoStopState: empty is the time since empty_since, or -1 for None.     *)

Unset == -1
NoState == [meeting |-> None, empty |-> Unset, timer |-> FALSE, gen |-> 0]

NewForMeeting(m) == [NoState EXCEPT !.meeting = m]

RefreshForMeeting(s, m) ==
  IF s.meeting = m THEN s ELSE [NewForMeeting(m) EXCEPT !.gen = s.gen]

StartsTimer(s, count) == count = 0 /\ ~s.timer

OnCount(s, count) ==
  IF count = 0
  THEN [s EXCEPT !.empty = IF @ = Unset THEN 0 ELSE @, !.timer = TRUE,
                 !.gen = IF s.timer THEN @ ELSE @ + 1]
  ELSE [s EXCEPT !.timer = FALSE, !.empty = Unset]

ClearTimer(s, gen) == IF s.gen = gen THEN [s EXCEPT !.timer = FALSE] ELSE s

RetryAfterFailedStop(s) == [s EXCEPT !.empty = 0, !.timer = TRUE]

Elapsed(s) == s.empty >= Grace

-----------------------------------------------------------------------------
Idle == [phase |-> "idle"]

Init ==
  /\ active = None
  /\ outcome = [m \in Meeting |-> "none"]
  /\ present = TRUE /\ cached = TRUE
  /\ auto = NoState /\ timers = {}
  /\ event = [e \in Event |-> Idle]
  /\ unmarked = 0 /\ moves = 0

(* Discord sends an event for every change of a voice state, the bot's too. *)
Send(e) == event[e] = Idle /\ event' = [event EXCEPT ![e] = [phase |-> "sent"]]

StartRecording(m, e) ==
  /\ active = None /\ outcome[m] = "none"
  /\ active' = m /\ outcome' = [outcome EXCEPT ![m] = "recording"]
  /\ Send(e)
  /\ UNCHANGED <<present, cached, auto, timers, unmarked, moves>>

Move(e) ==
  /\ moves < MaxMoves /\ moves' = moves + 1
  /\ present' = ~present
  /\ Send(e)
  /\ UNCHANGED <<active, outcome, cached, auto, timers, unmarked>>

(* A ready event of the gateway empties and refills the cache.             *)
CacheChanges == cached' = ~cached /\ UNCHANGED <<active, outcome, present, auto, timers, event, unmarked, moves>>

Count == IF ~cached THEN Unset ELSE IF present THEN 1 ELSE 0

(* A count that is not known may be of an empty channel.                   *)
EventMemberCount(count) == IF count = Unset THEN 0 ELSE count

(* A handler finds the recording and counts; without one it forgets the    *)
(* guild's state.                                                          *)
EvaluateEvent(e) ==
  /\ event[e].phase = "sent"
  /\ ~Overlap => \A f \in Event : event[f].phase # "counted"
  /\ IF active = None
     THEN event' = [event EXCEPT ![e] = Idle] /\ auto' = NoState
     ELSE /\ event' = [event EXCEPT ![e] =
                [phase |-> "counted", meeting |-> active, count |-> EventMemberCount(Count)]]
          /\ UNCHANGED auto
  /\ UNCHANGED <<active, outcome, present, cached, timers, unmarked, moves>>

EventLookupFails(e) ==
  /\ EventFaults /\ event[e].phase = "sent"
  /\ event' = [event EXCEPT ![e] = Idle]
  /\ UNCHANGED <<active, outcome, present, cached, auto, timers, unmarked, moves>>

NewTimer(m, gen) == [meeting |-> m, gen |-> gen, left |-> Grace, misses |-> 0,
                     lookups |-> 0, stops |-> 0, cleanups |-> 0]

(* Back from auto_stop_grace_for_meeting, the handler writes what it       *)
(* counted.                                                                *)
ApplyEvent(e) ==
  /\ event[e].phase = "counted"
  /\ LET m == event[e].meeting
         s == RefreshForMeeting(auto, m)
     IN /\ auto' = OnCount(s, event[e].count)
        /\ timers' = IF StartsTimer(s, event[e].count)
                     THEN timers \cup {NewTimer(m, auto'.gen)} ELSE timers
  /\ event' = [event EXCEPT ![e] = Idle]
  /\ UNCHANGED <<active, outcome, present, cached, unmarked, moves>>

-----------------------------------------------------------------------------
(* The timer task, after it slept.                                         *)

Due(t) == t \in timers /\ t.left = 0
Belongs(t) == auto.meeting = t.meeting
Exit(t) == timers' = timers \ {t}
SleepAgain(t, u) == timers' = (timers \ {t}) \cup {[u EXCEPT !.left = Grace]}

CleanupFor(m) == IF auto.meeting \in {m, None} THEN NoState ELSE auto

EndRecording(m, how) ==
  /\ active' = None
  /\ outcome' = [outcome EXCEPT ![m] = how]
  /\ auto' = CleanupFor(m)
  /\ UNCHANGED <<present, cached, event, moves>>

Rest == UNCHANGED <<active, outcome, present, cached, event, unmarked, moves>>

ReachedLimit(count, limit) == count + 1 >= limit
Capped(count, limit) == IF count < limit THEN count + 1 ELSE limit

(* Marking the recording failed may fail in its turn: the timer sleeps     *)
(* again, as u, and the guild's state is left as it is, s.  At the limit   *)
(* the mark is tried once more, and a failure then starts the count again. *)
MarkFailed(t, u, s, how) ==
  LET fails(n) == TimerFaults /\ unmarked + n <= MaxUnmarked /\ unmarked' = unmarked + n
      end == EndRecording(t.meeting, "failed") /\ Exit(t)
      again(cleanups) ==
        /\ SleepAgain(t, [u EXCEPT !.cleanups = cleanups])
        /\ auto' = s
        /\ outcome' = [outcome EXCEPT ![t.meeting] = how]
        /\ UNCHANGED <<active, present, cached, event, moves>>
      limit == ReachedLimit(t.cleanups, MaxCleanups)
  IN \/ end /\ UNCHANGED unmarked
     \/ ~limit /\ fails(1) /\ again(t.cleanups + 1)
     \/ limit /\ fails(1) /\ end
     \/ limit /\ fails(2) /\ again(0)

DecideExpiry(count) ==
  CASE count = Unset -> "reschedule" [] count = 0 -> "stop" [] OTHER -> "cancel"

TimerOfAnother(t) ==
  /\ Due(t) /\ active # t.meeting
  /\ auto' = IF Belongs(t) THEN NoState ELSE auto
  /\ Exit(t) /\ Rest

TimerCancels(t) ==
  /\ Due(t) /\ active = t.meeting /\ DecideExpiry(Count) = "cancel"
  /\ auto' = IF Belongs(t) THEN OnCount(auto, 1) ELSE auto
  /\ Exit(t) /\ Rest

(* The cache is not there: look again after another grace period, but not  *)
(* for ever.                                                               *)
TimerMisses(t) ==
  LET u == [t EXCEPT !.misses = Capped(@, MaxMisses), !.lookups = 0] IN
  /\ Due(t) /\ active = t.meeting /\ DecideExpiry(Count) = "reschedule"
  /\ IF ReachedLimit(t.misses, MaxMisses) THEN MarkFailed(t, u, auto, outcome[t.meeting])
     ELSE /\ auto' = IF Belongs(t) THEN RetryAfterFailedStop(auto) ELSE auto
          /\ IF Belongs(t) THEN SleepAgain(t, u) ELSE Exit(t)
          /\ Rest

(* The channel is empty, and its state says whether it was for long enough. *)
Triggers(t) == auto.meeting = None \/ (Belongs(t) /\ Elapsed(auto))

TimerIdle(t) ==
  /\ Due(t) /\ active = t.meeting /\ DecideExpiry(Count) = "stop" /\ ~Triggers(t)
  /\ auto' = IF Belongs(t) THEN ClearTimer(auto, t.gen) ELSE auto
  /\ Exit(t) /\ Rest

TimerStops(t) ==
  /\ Due(t) /\ active = t.meeting /\ DecideExpiry(Count) = "stop" /\ Triggers(t)
  /\ EndRecording(t.meeting, "auto_empty") /\ Exit(t)
  /\ UNCHANGED unmarked

(* tick has taken empty_since.  A failed stop puts it back, unless it was  *)
(* the last one: when the mark fails then, the timer finds nothing to wait *)
(* for after its sleep.                                                    *)
Ticked == IF auto.meeting = None THEN auto ELSE [auto EXCEPT !.empty = Unset]

StopFails(t) ==
  LET u == [t EXCEPT !.misses = 0, !.lookups = 0, !.stops = Capped(@, MaxFailures)] IN
  /\ TimerFaults
  /\ Due(t) /\ active = t.meeting /\ DecideExpiry(Count) = "stop" /\ Triggers(t)
  /\ IF ReachedLimit(t.stops, MaxFailures) \/ ~Belongs(t)
     THEN MarkFailed(t, u, Ticked, IF Belongs(t) THEN "left" ELSE outcome[t.meeting])
     ELSE auto' = RetryAfterFailedStop(auto) /\ SleepAgain(t, u) /\ Rest

TimerLookupFails(t) ==
  LET u == [t EXCEPT !.lookups = Capped(@, MaxFailures)] IN
  /\ TimerFaults /\ Due(t)
  /\ IF ~ReachedLimit(t.lookups, MaxFailures) THEN SleepAgain(t, u) /\ UNCHANGED auto /\ Rest
     ELSE IF active = t.meeting THEN MarkFailed(t, u, auto, outcome[t.meeting])
     ELSE Rest /\ auto' = CleanupFor(t.meeting) /\ Exit(t)

(* A command, the schedule or a lost voice connection ends the recording.  *)
EndOtherwise ==
  /\ active # None
  /\ EndRecording(active, "stopped")
  /\ UNCHANGED <<timers, unmarked>>

Tick ==
  /\ \/ \E t \in timers : t.left > 0
     \/ auto.empty \in 0 .. (Grace - 1)
  /\ timers' = {[t EXCEPT !.left = IF @ > 0 THEN @ - 1 ELSE 0] : t \in timers}
  /\ auto' = [auto EXCEPT !.empty = IF @ \in 0 .. (Grace - 1) THEN @ + 1 ELSE @]
  /\ UNCHANGED <<active, outcome, present, cached, event, unmarked, moves>>

TimerFires(t) ==
  \/ TimerOfAnother(t) \/ TimerCancels(t) \/ TimerMisses(t) \/ TimerIdle(t)
  \/ TimerStops(t) \/ StopFails(t) \/ TimerLookupFails(t)

Next ==
  \/ \E m \in Meeting, e \in Event : StartRecording(m, e)
  \/ \E e \in Event : Move(e) \/ EvaluateEvent(e) \/ EventLookupFails(e) \/ ApplyEvent(e)
  \/ CacheChanges
  \/ \E t \in timers : TimerFires(t)
  \/ EndOtherwise
  \/ Tick

(* The runtime runs every task, and time passes.                           *)
Fairness ==
  /\ WF_vars(Tick)
  /\ WF_vars(\E t \in timers : TimerFires(t))
  /\ \A e \in Event : WF_vars(EvaluateEvent(e) \/ EventLookupFails(e)) /\ WF_vars(ApplyEvent(e))

Spec == Init /\ [][Next]_vars /\ Fairness

-----------------------------------------------------------------------------
(* Whoever is told that a timer is already waiting is told the truth: the  *)
(* reservation is never left behind by a task that has gone, except by one *)
(* that could neither stop its recording nor mark it failed.               *)
WaiterWaits ==
  auto.timer /\ active = auto.meeting =>
    outcome[active] = "left" \/ \E t \in timers : t.meeting = auto.meeting

(* A recording in a channel that stays empty ends: it is stopped, or it is *)
(* marked failed when the cache or the database stays away.  Only a mark   *)
(* that fails after the last failed stop leaves it recording: its timer    *)
(* gives up.                                                               *)
EmptyChannelEnds ==
  \A m \in Meeting :
    active = m /\ ~present ~> active # m \/ present \/ outcome[m] = "left"
=============================================================================
