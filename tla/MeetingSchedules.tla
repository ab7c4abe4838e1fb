-------------------------- MODULE MeetingSchedules --------------------------
(***************************************************************************)
(* Weekly recordings.  Schedules are created by a command, in one          *)
(* transaction, and by the web API, in several statements under an         *)
(* advisory lock of its session; windows of one guild never overlap.  A    *)
(* loop of the bot moves past windows on to the next week, claims the      *)
(* occurrence that is due by moving it on too, starts the recording, and   *)
(* leaves a task behind that stops it at the end of the window.            *)
(***************************************************************************)
EXTENDS Integers

CONSTANTS
  Schedule,  \* ids
  Request,   \* web requests that create one
  None,
  Week,      \* seven days, in steps of the clock
  Durations, \* window lengths asked for
  Horizon,   \* bound on the clock
  Drops      \* clients may go away while their request is handled

WeekAssumption ==
  Week \in Nat \ {0} /\ Horizon \in Nat /\ \A d \in Durations : d \in 1 .. (Week - 1)

Instant == 0 .. (Horizon + 2 * Week)

VARIABLES
  now,
  row,     \* meeting_schedules
  web,     \* the web requests
  held,    \* how often the web session holds the advisory lock
  eval,    \* the evaluation under way
  rec,     \* the guild's recording: of a schedule's occurrence, by hand, or None
  enders,  \* occurrences whose end task sleeps
  begun,   \* how often each occurrence was claimed and started
  people   \* are there two people in the channel?

vars == <<now, row, web, held, eval, rec, enders, begun, people>>

NoRow == [live |-> FALSE, active |-> FALSE, start |-> 0, dur |-> 1]
NoRequest == [phase |-> "none", start |-> 0, dur |-> 1]
NoEval == [phase |-> "idle", due |-> {}, at |-> None]

Init ==
  /\ now = 0
  /\ row = [s \in Schedule |-> NoRow]
  /\ web = [r \in Request |-> NoRequest] /\ held = 0
  /\ eval = NoEval /\ rec = None /\ enders = {}
  /\ begun = [s \in Schedule |-> [o \in Instant |-> 0]]
  /\ people = FALSE

Active == {s \in Schedule : row[s].active}
EndOf(s) == row[s].start + row[s].dur

-----------------------------------------------------------------------------
(* Creation.  Two windows meet when one begins inside the other, whatever  *)
(* the week.                                                               *)
Meets(start, dur, s) ==
  \/ (start - row[s].start) % Week < row[s].dur
  \/ (row[s].start - start) % Week < dur

Overlaps(start, dur) == \E s \in Active : Meets(start, dur, s)

ValidWindow(start, dur) == start > now /\ dur \in Durations

InsertRow(s, start, dur) ==
  row' = [row EXCEPT ![s] = [live |-> TRUE, active |-> TRUE, start |-> start, dur |-> dur]]

(* One transaction, under the lock.                                        *)
ScheduleCreate(s, start, dur) ==
  /\ ~row[s].live /\ ValidWindow(start, dur) /\ held = 0
  /\ IF Overlaps(start, dur) THEN UNCHANGED row ELSE InsertRow(s, start, dur)
  /\ UNCHANGED <<now, web, held, eval, rec, enders, begun, people>>

Locked(r) == web[r].phase \in {"locked", "checked", "done"}

(* Mutant: the lock of the process is not taken.                           *)
MutWebLock(r, start, dur) ==
  /\ web[r] = NoRequest /\ ValidWindow(start, dur)
  /\ web' = [web EXCEPT ![r] = [phase |-> "locked", start |-> start, dur |-> dur]]
  /\ held' = held + 1
  /\ UNCHANGED <<now, row, eval, rec, enders, begun, people>>

(* schedule_write_lock, then pg_advisory_lock, which the session may take  *)
(* again when it has it.                                                   *)
WebLock(r, start, dur) ==
  /\ web[r] = NoRequest /\ ValidWindow(start, dur)
  /\ \A q \in Request : ~Locked(q)
  /\ web' = [web EXCEPT ![r] = [phase |-> "locked", start |-> start, dur |-> dur]]
  /\ held' = held + 1
  /\ UNCHANGED <<now, row, eval, rec, enders, begun, people>>

WebCheck(r) ==
  /\ web[r].phase = "locked"
  /\ web' = [web EXCEPT ![r].phase = IF Overlaps(web[r].start, web[r].dur) THEN "done" ELSE "checked"]
  /\ UNCHANGED <<now, row, held, eval, rec, enders, begun, people>>

WebInsert(r, s) ==
  /\ web[r].phase = "checked" /\ ~row[s].live
  /\ InsertRow(s, web[r].start, web[r].dur)
  /\ web' = [web EXCEPT ![r].phase = "done"]
  /\ UNCHANGED <<now, held, eval, rec, enders, begun, people>>

(* A statement fails; the lock is given back as after a conflict.          *)
WebFails(r) ==
  /\ web[r].phase \in {"locked", "checked"}
  /\ web' = [web EXCEPT ![r].phase = "done"]
  /\ UNCHANGED <<now, row, held, eval, rec, enders, begun, people>>

WebUnlock(r) ==
  /\ web[r].phase = "done"
  /\ web' = [web EXCEPT ![r].phase = "answered"]
  /\ held' = held - 1
  /\ UNCHANGED <<now, row, eval, rec, enders, begun, people>>

(* The client goes away: the handler is dropped where it waits, its guard  *)
(* with it, and the session keeps the lock.                                *)
WebDropped(r) ==
  /\ Drops /\ Locked(r)
  /\ web' = [web EXCEPT ![r].phase = "dropped"]
  /\ UNCHANGED <<now, row, held, eval, rec, enders, begun, people>>

(* Neither cancellation takes the lock.                                    *)
CancelRow(s) ==
  /\ row[s].active
  /\ row' = [row EXCEPT ![s].active = FALSE]
  /\ UNCHANGED <<now, web, held, eval, rec, enders, begun, people>>

ScheduleCancel(s) == CancelRow(s)
WebCancel(s) == CancelRow(s)

-----------------------------------------------------------------------------
(* One evaluation: windows that are over move on to the first that is not, *)
(* and the rows whose window is open are read.                             *)
CaughtUp(r) ==
  IF r.active /\ r.start + r.dur <= now
  THEN [r EXCEPT !.start = @ + Week * ((now - (r.start + r.dur)) \div Week + 1)]
  ELSE r

NextRow(due) == eval' = [NoEval EXCEPT !.phase = IF due = {} THEN "idle" ELSE "rows", !.due = due]

EvaluateSchedules ==
  /\ eval = NoEval
  /\ row' = [s \in Schedule |-> CaughtUp(row[s])]
  /\ NextRow({<<s, row'[s].start>> : s \in {t \in Active : row'[t].start <= now}})
  /\ UNCHANGED <<now, web, held, rec, enders, begun, people>>

Rest == UNCHANGED <<now, web, held, people>>

(* Nobody there, or another recording: the occurrence stays due.           *)
SkipRow(d) ==
  /\ eval.phase = "rows" /\ d \in eval.due /\ (~people \/ rec # None)
  /\ NextRow(eval.due \ {d})
  /\ UNCHANGED <<row, rec, enders, begun>> /\ Rest

CheckRow(d) ==
  /\ eval.phase = "rows" /\ d \in eval.due /\ people /\ rec = None
  /\ eval' = [eval EXCEPT !.phase = "checked", !.at = d]
  /\ UNCHANGED <<row, rec, enders, begun>> /\ Rest

(* Mutant: a claim leaves the row to the next evaluation's catching up.    *)
MutClaimRow ==
  /\ eval.phase = "checked"
  /\ LET s == eval.at[1]
     IN IF row[s].active /\ row[s].start = eval.at[2]
        THEN eval' = [eval EXCEPT !.phase = "claimed"]
        ELSE NextRow(eval.due \ {eval.at})
  /\ UNCHANGED <<row, rec, enders, begun>> /\ Rest

(* The occurrence is claimed by moving the schedule on, unless it has been *)
(* canceled or moved since it was read.                                    *)
ClaimRow ==
  /\ eval.phase = "checked"
  /\ LET s == eval.at[1]
     IN IF row[s].active /\ row[s].start = eval.at[2]
        THEN /\ row' = [row EXCEPT ![s].start = @ + Week]
             /\ eval' = [eval EXCEPT !.phase = "claimed"]
        ELSE UNCHANGED row /\ NextRow(eval.due \ {eval.at})
  /\ UNCHANGED <<rec, enders, begun>> /\ Rest

(* The start fails when somebody has started a recording by hand, or the   *)
(* join does; the occurrence is not tried again.                           *)
StartClaimed ==
  /\ eval.phase = "claimed"
  /\ \E ok \in BOOLEAN :
       IF ok /\ rec = None
       THEN /\ rec' = eval.at /\ enders' = enders \cup {eval.at}
            /\ begun' = [begun EXCEPT ![eval.at[1]][eval.at[2]] = @ + 1]
       ELSE UNCHANGED <<rec, enders, begun>>
  /\ NextRow(eval.due \ {eval.at}) /\ UNCHANGED row /\ Rest

(* The task at the end of the window stops its own recording.              *)
WindowEnds(d) ==
  /\ d \in enders /\ now >= d[2] + row[d[1]].dur
  /\ enders' = enders \ {d}
  /\ rec' = IF rec = d THEN None ELSE rec
  /\ UNCHANGED <<row, eval, begun>> /\ Rest

-----------------------------------------------------------------------------
(* A recording somebody starts by hand belongs to no schedule.             *)
StartByHand ==
  /\ rec = None /\ rec' = <<None, 0>>
  /\ UNCHANGED <<now, row, web, held, eval, enders, begun, people>>

EndByHand ==
  /\ rec # None /\ rec' = None
  /\ UNCHANGED <<now, row, web, held, eval, enders, begun, people>>

PeopleMove == people' = ~people /\ UNCHANGED <<now, row, web, held, eval, rec, enders, begun>>

Tick == now < Horizon /\ now' = now + 1
        /\ UNCHANGED <<row, web, held, eval, rec, enders, begun, people>>

(* The process stops; recovery ends the recording it left.                 *)
Restart ==
  /\ rec' = None /\ eval' = NoEval /\ enders' = {} /\ held' = 0
  /\ web' = [r \in Request |-> IF web[r] = NoRequest THEN web[r] ELSE [web[r] EXCEPT !.phase = "dropped"]]
  /\ UNCHANGED <<now, row, begun, people>>

Next ==
  \/ \E s \in Schedule, start \in now .. (now + Week), dur \in Durations : ScheduleCreate(s, start, dur)
  \/ \E r \in Request, start \in now .. (now + Week), dur \in Durations : WebLock(r, start, dur)
  \/ \E r \in Request : WebCheck(r) \/ WebFails(r) \/ WebUnlock(r) \/ WebDropped(r) \/ \E s \in Schedule : WebInsert(r, s)
  \/ \E s \in Schedule : ScheduleCancel(s) \/ WebCancel(s)
  \/ EvaluateSchedules
  \/ \E d \in eval.due : SkipRow(d) \/ CheckRow(d)
  \/ ClaimRow \/ StartClaimed
  \/ \E d \in enders : WindowEnds(d)
  \/ StartByHand \/ EndByHand \/ PeopleMove \/ Tick \/ Restart

(* The database answers, the runtime runs its tasks and time passes.       *)
Fairness ==
  /\ \A r \in Request : WF_vars(WebCheck(r) \/ (\E s \in Schedule : WebInsert(r, s)) \/ WebFails(r) \/ WebUnlock(r))
  /\ WF_vars(Tick) /\ WF_vars(\E d \in enders : WindowEnds(d))

Spec == Init /\ [][Next]_vars /\ Fairness

-----------------------------------------------------------------------------
(* No two schedules of the guild ask for the bot at the same time of the   *)
(* week, whichever way they were created and however far each was moved.   *)
NoOverlap ==
  \A s, t \in Active : s # t => \A x \in 0 .. (Week - 1) :
    ~((x - row[s].start) % Week < row[s].dur /\ (x - row[t].start) % Week < row[t].dur)

(* An occurrence is started at most once, across recordings stopped early  *)
(* and processes that stopped between the claim and the start.             *)
OncePerOccurrence == \A s \in Schedule, o \in Instant : begun[s][o] <= 1

(* A schedule moves past an occurrence when its window is over or when the *)
(* occurrence is claimed, and by whole weeks.                              *)
NoneSkippedStep ==
  \A s \in Schedule : row[s].active /\ row'[s].start # row[s].start =>
    /\ (row'[s].start - row[s].start) % Week = 0
    /\ row'[s].start - Week + row[s].dur <= now \/ eval.at = <<s, row[s].start>>

NoneSkipped == [][NoneSkippedStep]_vars

(* A canceled schedule is not claimed any more.                            *)
CanceledRestsStep ==
  \A s \in Schedule : row[s].live /\ ~row[s].active => row'[s] = row[s]

CanceledRests == [][CanceledRestsStep]_vars

(* A recording of a schedule ends with its window at the latest (when the  *)
(* window ends before the clock stops, and the one stop it gets succeeds). *)
WindowCloses ==
  \A s \in Schedule, o \in 0 .. Horizon :
    rec = <<s, o>> /\ o + row[s].dur <= Horizon ~> rec # <<s, o>>

(* The lock of the web session is given back, so that the command is not   *)
(* kept waiting.                                                           *)
LockGivenBack == held > 0 ~> held = 0
=============================================================================
