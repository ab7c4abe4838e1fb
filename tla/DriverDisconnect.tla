-------------------------- MODULE DriverDisconnect --------------------------
(***************************************************************************)
(* A recording whose voice connection is lost.  songbird reports that its  *)
(* driver left a channel; the handler looks up whose channel it was and    *)
(* starts a task that waits for the grace period and ends the recording    *)
(* unless the bot is back.  The report comes as well when the bot leaves   *)
(* at the end of a recording, and by the time the task looks another       *)
(* recording may be under way in the same channel.  Every call to the      *)
(* database may fail; each kind of failure has a counter of its own.       *)
(***************************************************************************)
EXTENDS Naturals

CONSTANTS
  Meeting, Channel, None,
  MaxMisses,     \* DRIVER_DISCONNECT_GRACE_MAX_CACHE_MISS_CHECKS
  MaxLookups,    \* RECORDING_LOOKUP_MAX_RETRIES
  MaxStops,      \* RECORDING_STOP_MAX_RETRIES
  MaxCleanups,   \* RECORDING_TERMINAL_CLEANUP_MAX_RETRIES
  MaxFaults,     \* bound on the calls that fail
  MaxReports,    \* bound on the reports of songbird
  ResolveFaults  \* the lookup at the time of the report may fail

LimitsAssumption ==
  \A limit \in {MaxMisses, MaxLookups, MaxStops, MaxCleanups} : limit \in Nat \ {0}

VARIABLES
  active,  \* the guild's recording in the database, or None
  outcome, \* how each recording ended
  chan,    \* voice_channel_id of each meeting
  bot,     \* where the bot is connected, or None
  cached,  \* is the guild in the cache?
  tasks,   \* reports and the tasks made of them, by number
  faults   \* calls that have failed

vars == <<active, outcome, chan, bot, cached, tasks, faults>>

Report(c, target) ==
  [phase |-> "report", channel |-> c, expected |-> None, target |-> target,
   misses |-> 0, lookups |-> 0, stops |-> 0, cleanups |-> 0]
NoTask == [Report(None, None) EXCEPT !.phase = "none"]

Init ==
  /\ active = None /\ bot = None /\ cached = TRUE
  /\ outcome = [m \in Meeting |-> "none"] /\ chan = [m \in Meeting |-> None]
  /\ tasks = [i \in 1 .. MaxReports |-> NoTask] /\ faults = 0

Connected(m) == bot = chan[m]

(* The target is what the report is about, for the properties alone.       *)
Leaves(i) ==
  /\ tasks[i] = NoTask /\ bot # None
  /\ tasks' = [tasks EXCEPT ![i] =
       Report(bot, IF active # None /\ Connected(active) THEN active ELSE None)]
  /\ bot' = None

StartRecording(m, c) ==
  /\ active = None /\ outcome[m] = "none"
  /\ active' = m /\ bot' = c
  /\ outcome' = [outcome EXCEPT ![m] = "recording"]
  /\ chan' = [chan EXCEPT ![m] = c]
  /\ UNCHANGED <<cached, tasks, faults>>

ConnectionLost(i) == Leaves(i) /\ UNCHANGED <<active, outcome, chan, cached, faults>>

Reconnects ==
  /\ active # None /\ bot = None
  /\ bot' = chan[active]
  /\ UNCHANGED <<active, outcome, chan, cached, tasks, faults>>

(* A command or a timer ends the recording and leaves the channel.         *)
EndOtherwise(i) ==
  /\ active # None
  /\ IF bot = None THEN UNCHANGED <<tasks, bot>> ELSE Leaves(i)
  /\ active' = None /\ outcome' = [outcome EXCEPT ![active] = "stopped"]
  /\ UNCHANGED <<chan, cached, faults>>

CacheChanges == cached' = ~cached /\ UNCHANGED <<active, outcome, chan, bot, tasks, faults>>

-----------------------------------------------------------------------------
(* The handler looks up whose channel it was.                              *)
Resolve(i) ==
  /\ tasks[i].phase = "report"
  /\ tasks' = [tasks EXCEPT ![i].phase = "waiting",
       ![i].expected = IF active # None /\ chan[active] = tasks[i].channel THEN active ELSE None]
  /\ UNCHANGED <<active, outcome, chan, bot, cached, faults>>

Fault(n) == faults + n <= MaxFaults /\ faults' = faults + n

ResolveFails(i) ==
  /\ ResolveFaults /\ tasks[i].phase = "report" /\ Fault(1)
  /\ tasks' = [tasks EXCEPT ![i].phase = "waiting"]
  /\ UNCHANGED <<active, outcome, chan, bot, cached>>

-----------------------------------------------------------------------------
(* One round of the task, with the permit of the recording lifecycle.      *)

Exit(i) == tasks' = [tasks EXCEPT ![i] = NoTask]
Again(i, t) == tasks' = [tasks EXCEPT ![i] = t]
Untouched == UNCHANGED <<active, outcome, bot>>

(* The end of a recording that is no longer the active one is no error.    *)
End(m, how) ==
  IF active = m
  THEN /\ active' = None /\ bot' = None
       /\ outcome' = [outcome EXCEPT ![m] = how]
  ELSE Untouched

ReachedLimit(count, limit) == count + 1 >= limit
Capped(count, limit) == IF count < limit THEN count + 1 ELSE limit

(* Mutant: the task gives up after the first failure.                      *)
MutMarkFailed(i, t, m, f) ==
  \/ Fault(f) /\ End(m, "failed") /\ Exit(i)
  \/ Fault(f + 1) /\ Untouched /\ Exit(i)

(* Marking the recording failed may fail in its turn, with f faults so far *)
(* in this round; at the limit it is tried once more, and a failure then   *)
(* starts the count again.                                                 *)
MarkFailed(i, t, m, f) ==
  \/ Fault(f) /\ End(m, "failed") /\ Exit(i)
  \/ /\ Fault(f + 1) /\ ~ReachedLimit(t.cleanups, MaxCleanups)
     /\ Untouched /\ Again(i, [t EXCEPT !.cleanups = @ + 1])
  \/ /\ Fault(f + 1) /\ ReachedLimit(t.cleanups, MaxCleanups)
     /\ End(m, "failed") /\ Exit(i)
  \/ /\ Fault(f + 2) /\ ReachedLimit(t.cleanups, MaxCleanups)
     /\ Untouched /\ Again(i, [t EXCEPT !.cleanups = 0])

Round(i) == tasks[i].phase = "waiting" /\ UNCHANGED <<chan, cached>>

(* Without a target the task ends nothing: the recording it may find is    *)
(* perhaps a later one.                                                    *)
WithoutTarget(i) ==
  /\ Round(i) /\ tasks[i].expected = None
  /\ Fault(0) /\ Untouched /\ Exit(i)

(* Unless it cannot look for so long that it fails whatever is active, if  *)
(* it can look that up.                                                    *)
WithoutTargetBlind(i) ==
  /\ Round(i) /\ tasks[i].expected = None
  /\ LET t == [tasks[i] EXCEPT !.lookups = Capped(@, MaxLookups)]
     IN IF ~ReachedLimit(tasks[i].lookups, MaxLookups)
        THEN Fault(1) /\ Untouched /\ Again(i, t)
        ELSE \/ active # None /\ MarkFailed(i, t, active, 1)
             \/ active = None /\ Fault(1) /\ Untouched /\ Exit(i)
             \/ Fault(2) /\ Untouched /\ Exit(i)

TargetLookupFails(i) ==
  /\ Round(i) /\ tasks[i].expected # None
  /\ LET t == [tasks[i] EXCEPT !.lookups = Capped(@, MaxLookups)]
     IN IF ReachedLimit(tasks[i].lookups, MaxLookups)
        THEN MarkFailed(i, t, t.expected, 1)
        ELSE Fault(1) /\ Untouched /\ Again(i, t)

(* The target was found: from here on the count of failed lookups is 0.    *)
OtherRecording(i) ==
  /\ Round(i) /\ tasks[i].expected \notin {None, active}
  /\ Fault(0) /\ Untouched /\ Exit(i)

OwnRecording(i) == Round(i) /\ tasks[i].expected # None /\ active = tasks[i].expected

CacheMissed(i) ==
  /\ OwnRecording(i) /\ ~cached
  /\ LET t == [tasks[i] EXCEPT !.lookups = 0, !.misses = Capped(@, MaxMisses)]
     IN IF ReachedLimit(tasks[i].misses, MaxMisses)
        THEN MarkFailed(i, t, t.expected, 0)
        ELSE Fault(0) /\ Untouched /\ Again(i, t)

Reconnected(i) ==
  /\ OwnRecording(i) /\ cached /\ Connected(active)
  /\ Fault(0) /\ Untouched /\ Exit(i)

Stops(i) ==
  /\ OwnRecording(i) /\ cached /\ ~Connected(active)
  /\ Fault(0) /\ End(active, "client_disconnect") /\ Exit(i)

StopFails(i) ==
  /\ OwnRecording(i) /\ cached /\ ~Connected(active)
  /\ LET t == [tasks[i] EXCEPT !.lookups = 0, !.misses = 0, !.stops = Capped(@, MaxStops)]
     IN IF ReachedLimit(tasks[i].stops, MaxStops)
        THEN MarkFailed(i, t, t.expected, 1)
        ELSE Fault(1) /\ Untouched /\ Again(i, t)

(* Mutant: a recording other than the target is stopped too.               *)
MutTaskRound(i) ==
  \/ WithoutTarget(i) \/ WithoutTargetBlind(i) \/ TargetLookupFails(i)
  \/ CacheMissed(i) \/ Reconnected(i) \/ Stops(i) \/ StopFails(i)
  \/ /\ Round(i) /\ tasks[i].expected \notin {None, active} /\ active # None
     /\ Fault(0) /\ End(active, "client_disconnect") /\ Exit(i)

TaskRound(i) ==
  \/ WithoutTarget(i) \/ WithoutTargetBlind(i) \/ TargetLookupFails(i) \/ OtherRecording(i)
  \/ CacheMissed(i) \/ Reconnected(i) \/ Stops(i) \/ StopFails(i)

Next ==
  \/ \E m \in Meeting, c \in Channel : StartRecording(m, c)
  \/ \E i \in DOMAIN tasks : ConnectionLost(i) \/ EndOtherwise(i)
  \/ Reconnects
  \/ CacheChanges
  \/ \E i \in DOMAIN tasks : Resolve(i) \/ ResolveFails(i) \/ TaskRound(i)

(* The runtime runs every handler and every task.                          *)
Fairness ==
  \A i \in 1 .. MaxReports : WF_vars(Resolve(i) \/ ResolveFails(i)) /\ WF_vars(TaskRound(i))

Spec == Init /\ [][Next]_vars /\ Fairness

-----------------------------------------------------------------------------
(* A recording that has lost its voice connection for good ends, so that   *)
(* the next one can start: it is stopped, or marked failed when the cache  *)
(* or the database stays away.                                             *)
DisconnectedEnds ==
  \A m \in Meeting : active = m /\ ~Connected(m) ~> active # m \/ Connected(m)

(* A task never ends a later recording that it could see was connected.    *)
LaterKeptStep ==
  \A i \in DOMAIN tasks : tasks[i].phase = "waiting" /\ tasks'[i] = NoTask
    /\ active # None /\ active' = None =>
      tasks[i].target = active \/ ~Connected(active) \/ ~cached

LaterKept == [][LaterKeptStep]_vars

(* Every task comes to an end.                                             *)
TaskEnds == \A i \in 1 .. MaxReports : tasks[i].phase = "waiting" ~> tasks[i].phase # "waiting"
=============================================================================
