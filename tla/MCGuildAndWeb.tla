--------------------------- MODULE MCGuildAndWeb ----------------------------
(***************************************************************************)
(* What ends and starts a recording by itself, and what the web shows of   *)
(* it, for TLC: AutoStop, DriverDisconnect, MeetingSchedules, BotToken,    *)
(* TranscriptStream, AccessChecks, WebSession, PlanAdministration and      *)
(* AuditTrail. A behaviour is one of a single instance, named by part; the *)
(* others rest in their initial state, so that the state spaces add up and *)
(* do not multiply.                                                        *)
(***************************************************************************)
EXTENDS AccessChecks, Integers, Sequences

VARIABLES
  part,
  active, outcome, present, cached, auto, timers, event, unmarked, moves,
  activeDriver, outcomeDriver, chan, bot, cachedDriver, tasks, faultsDriver,
  now, row, web, held, eval, rec, enders, begun, people,
  db, cipher, cache, reader, admin, rev, gw, slow,
  status, rows, done, pending, clock, stream, count, allowed, retries,
  rolesAccess, channelAccess, eventsAccess, permAccess, guildAccess, reqAccess,
  handledAccess, newestAccess, faultsAccess, expiriesAccess,
  nowWeb, member, left, states, nonce, jar, logins, ended, revoked, cacheWeb, inflight,
  reqWeb, streamWeb, faultsWeb, served,
  nowPlans, plans, quotas, assignments, anchor, audit, reqPlans, asked, faultsPlans,
  gate, caller, task, owed, stale

(* Two voice events that overlap, are lost or late, and a grace timer    *)
(* whose calls fail.                                                     *)
Events == INSTANCE AutoStop WITH
  Meeting <- {"m1"}, Event <- {"e1", "e2"}, None <- None, Grace <- 2, MaxMisses <- 2,
  MaxFailures <- 2, MaxCleanups <- 2, MaxUnmarked <- 1, MaxMoves <- 3, Overlap <- TRUE,
  EventFaults <- TRUE, TimerFaults <- TRUE

(* Two meetings in two channels, and reports of a lost driver.           *)
Moves == INSTANCE DriverDisconnect WITH
  Meeting <- {"m1", "m2"}, Channel <- {"c1", "c2"}, None <- None, MaxMisses <- 2,
  MaxLookups <- 2, MaxStops <- 2, MaxCleanups <- 2, MaxFaults <- 1, MaxReports <- 2,
  ResolveFaults <- FALSE,
  active <- activeDriver, outcome <- outcomeDriver, cached <- cachedDriver,
  faults <- faultsDriver

(* The same in one channel, of which the member list cannot be resolved. *)
Blind == INSTANCE DriverDisconnect WITH
  Meeting <- {"m1", "m2"}, Channel <- {"c1"}, None <- None, MaxMisses <- 2,
  MaxLookups <- 2, MaxStops <- 2, MaxCleanups <- 2, MaxFaults <- 1, MaxReports <- 2,
  ResolveFaults <- TRUE,
  active <- activeDriver, outcome <- outcomeDriver, cached <- cachedDriver,
  faults <- faultsDriver

(* One schedule over more than two of its weeks.                         *)
Occurrences == INSTANCE MeetingSchedules WITH
  Schedule <- {"s1"}, Request <- {}, None <- None, Week <- 3, Durations <- {1, 2},
  Horizon <- 8, Drops <- FALSE

(* Two requests that create schedules, one of which may be dropped at    *)
(* any await.                                                            *)
Creations == INSTANCE MeetingSchedules WITH
  Schedule <- {"s1", "s2"}, Request <- {"r1", "r2"}, None <- None, Week <- 3,
  Durations <- {2}, Horizon <- 0, Drops <- TRUE

(* Two readers and an administrator who changes the token.               *)
Tokens == INSTANCE BotToken WITH
  Token <- {"t1"}, Global <- "global", Unreadable <- "unreadable", None <- None,
  Reader <- {"r1", "r2"}, Admin <- {"a1"}, Drops <- TRUE, MaxSlow <- 1, DbFails <- FALSE

(* A stream over two chunks and the final transcript of a meeting that   *)
(* is retried, with reads that fail.                                     *)
Rows == INSTANCE TranscriptStream WITH
  Chunk <- {"c1", "c2"}, Final <- "final", Stream <- {"s1"}, MaxRows <- 1, MaxCommits <- 3,
  MaxRetries <- 1, MaxIdle <- 2, MaxPerUser <- 2, Start <- "recording"

(* Streams of one user over the limit, of a meeting that is retried.     *)
Permits == INSTANCE TranscriptStream WITH
  Chunk <- {"c1"}, Final <- "final", Stream <- {"s1", "s2"}, MaxRows <- 1, MaxCommits <- 1,
  MaxRetries <- 1, MaxIdle <- 1, MaxPerUser <- 1, Start <- "scheduled"

(* Requests of an administrator while the roles change, some of them     *)
(* strict.                                                               *)
Admin == INSTANCE AccessChecks WITH
  Request <- {"r1", "r2"}, None <- None, MaxRetries <- 1, Kinds <- {"admin", "strict"},
  MaxRoles <- 2, MaxChannel <- 1, MaxFaults <- 1, MaxExpiries <- 1,
  roles <- rolesAccess, channel <- channelAccess, events <- eventsAccess,
  perm <- permAccess, guild <- guildAccess, req <- reqAccess, handled <- handledAccess,
  newest <- newestAccess, faults <- faultsAccess, expiries <- expiriesAccess

(* One browser, two requests or streams, a logout and the end of the     *)
(* session.                                                              *)
Session == INSTANCE WebSession WITH
  Browser <- {"b1"}, Request <- {"r1", "r2"}, None <- None, CacheTtl <- 1,
  InflightTime <- 1, MaxTime <- 3, SessionTtl <- 3, VerifyInterval <- 1, StateTtl <- 1,
  StreamInterval <- 1, MaxLogins <- 1, MaxFaults <- 0, MaxRequests <- 2,
  now <- nowWeb, cache <- cacheWeb, req <- reqWeb, stream <- streamWeb, faults <- faultsWeb

(* A user who leaves the guild while checks of the membership are under  *)
(* way.                                                                  *)
Member == INSTANCE WebSession WITH
  Browser <- {"b1"}, Request <- {"r1", "r2"}, None <- None, CacheTtl <- 1,
  InflightTime <- 1, MaxTime <- 3, SessionTtl <- 4, VerifyInterval <- 4, StateTtl <- 1,
  StreamInterval <- 4, MaxLogins <- 0, MaxFaults <- 1, MaxRequests <- 2,
  now <- nowWeb, cache <- cacheWeb, req <- reqWeb, stream <- streamWeb, faults <- faultsWeb

(* Two browsers that log in at the same time.                            *)
Login == INSTANCE WebSession WITH
  Browser <- {"b1", "b2"}, Request <- {"r1"}, None <- None, CacheTtl <- 1,
  InflightTime <- 1, MaxTime <- 3, SessionTtl <- 2, VerifyInterval <- 1, StateTtl <- 2,
  StreamInterval <- 1, MaxLogins <- 2, MaxFaults <- 1, MaxRequests <- 0,
  now <- nowWeb, cache <- cacheWeb, req <- reqWeb, stream <- streamWeb, faults <- faultsWeb

(* Two administrators edit plans and quotas, with one failed statement.  *)
Catalog == INSTANCE PlanAdministration WITH
  Plan <- {"p1", "p2"}, Quota <- {"q1"}, Dimension <- {"d1", "d2"}, Assignment <- {"a1"},
  Request <- {"r1", "r2"}, Code <- {"default", "team"}, None <- None, MaxTime <- 1,
  DayLength <- 2,
  Operations <- {"plan.create", "plan.update", "plan.archive", "quota.create", "quota.update", "quota.delete", "assignment.create"},
  MaxRequests <- 3, MaxFaults <- 1,
  now <- nowPlans, req <- reqPlans, faults <- faultsPlans

(* Two administrators assign plans over time.                            *)
Assign == INSTANCE PlanAdministration WITH
  Plan <- {"p1", "p2"}, Quota <- {"q1"}, Dimension <- {"d1"}, Assignment <- {"a1", "a2"},
  Request <- {"r1", "r2"}, Code <- {"default", "team"}, None <- None, MaxTime <- 2,
  DayLength <- 2,
  Operations <- {"assignment.create", "assignment.update", "assignment.archive", "plan.archive"},
  MaxRequests <- 3, MaxFaults <- 1,
  now <- nowPlans, req <- reqPlans, faults <- faultsPlans

(* Four writers whose events trigger prunes.                             *)
Audit == INSTANCE AuditTrail WITH
  Caller <- {"c1", "c2", "c3", "c4"}, BatchSize <- 1, MaxStale <- 2

ASSUME
  /\ Events!GraceAssumption
  /\ Moves!LimitsAssumption
  /\ Blind!LimitsAssumption
  /\ Occurrences!WeekAssumption
  /\ Creations!WeekAssumption
  /\ Rows!BoundsAssumption
  /\ Permits!BoundsAssumption
  /\ Admin!RequestAssumption /\ Admin!BoundAssumption
  /\ Session!NoneAssumption /\ Session!BoundAssumption
  /\ Member!NoneAssumption /\ Member!BoundAssumption
  /\ Login!NoneAssumption /\ Login!BoundAssumption
  /\ Catalog!NoneAssumption /\ Catalog!CodeAssumption /\ Catalog!BoundAssumption
  /\ Assign!NoneAssumption /\ Assign!CodeAssumption /\ Assign!BoundAssumption
  /\ Audit!BoundAssumption

autoVars ==
  <<active, outcome, present, cached, auto, timers, event, unmarked, moves>>
driverVars ==
  <<activeDriver, outcomeDriver, chan, bot, cachedDriver, tasks, faultsDriver>>
schedulesVars ==
  <<now, row, web, held, eval, rec, enders, begun, people>>
tokenVars ==
  <<db, cipher, cache, reader, admin, rev, gw, slow>>
streamVars ==
  <<status, rows, done, pending, clock, stream, count, allowed, retries>>
accessVars ==
  <<rolesAccess, channelAccess, eventsAccess, permAccess, guildAccess, reqAccess,
    handledAccess, newestAccess, faultsAccess, expiriesAccess>>
webVars ==
  <<nowWeb, member, left, states, nonce, jar, logins, ended, revoked, cacheWeb, inflight,
    reqWeb, streamWeb, faultsWeb, served>>
plansVars ==
  <<nowPlans, plans, quotas, assignments, anchor, audit, reqPlans, asked, faultsPlans>>
auditVars ==
  <<gate, caller, task, owed, stale>>
WebVars == <<part, vars, autoVars, driverVars, schedulesVars, tokenVars, streamVars, accessVars, webVars, plansVars, auditVars>>

WebInit ==
  /\ part \in {"channel", "events", "moves", "blind", "occurrences", "creations", "tokens",
               "rows", "permits", "admin", "session", "member", "login", "catalog",
               "assign", "audit"}
  /\ Init
  /\ Events!Init
  /\ IF part = "moves" THEN Moves!Init ELSE Blind!Init
  /\ IF part = "occurrences" THEN Occurrences!Init ELSE Creations!Init
  /\ Tokens!Init
  /\ part # "tokens" => db = None /\ cipher
  /\ IF part = "rows" THEN Rows!Init ELSE Permits!Init
  /\ Admin!Init
  /\ CASE part = "session" -> Session!Init
       [] part = "member" -> Member!Init
       [] OTHER -> Login!Init
  /\ part \notin {"session", "member", "login"} => logins = 0
  /\ IF part = "catalog" THEN Catalog!Init ELSE Assign!Init
  /\ part \notin {"catalog", "assign"} => plans["p1"].status = "active"
  /\ Audit!Init

WebNext ==
  /\ UNCHANGED part
  /\ \/ /\ part = "channel" /\ Next
        /\ UNCHANGED <<autoVars, driverVars, schedulesVars, tokenVars, streamVars,
             accessVars, webVars, plansVars, auditVars>>
     \/ /\ part = "events" /\ Events!Next
        /\ UNCHANGED <<vars, driverVars, schedulesVars, tokenVars, streamVars, accessVars,
             webVars, plansVars, auditVars>>
     \/ /\ \/ part = "moves" /\ Moves!Next
           \/ part = "blind" /\ Blind!Next
        /\ UNCHANGED <<vars, autoVars, schedulesVars, tokenVars, streamVars, accessVars,
             webVars, plansVars, auditVars>>
     \/ /\ \/ part = "occurrences" /\ Occurrences!Next
           \/ part = "creations" /\ Creations!Next
        /\ UNCHANGED <<vars, autoVars, driverVars, tokenVars, streamVars, accessVars,
             webVars, plansVars, auditVars>>
     \/ /\ part = "tokens" /\ Tokens!Next
        /\ UNCHANGED <<vars, autoVars, driverVars, schedulesVars, streamVars, accessVars,
             webVars, plansVars, auditVars>>
     \/ /\ \/ part = "rows" /\ Rows!Next
           \/ part = "permits" /\ Permits!Next
        /\ UNCHANGED <<vars, autoVars, driverVars, schedulesVars, tokenVars, accessVars,
             webVars, plansVars, auditVars>>
     \/ /\ part = "admin" /\ Admin!Next
        /\ UNCHANGED <<vars, autoVars, driverVars, schedulesVars, tokenVars, streamVars,
             webVars, plansVars, auditVars>>
     \/ /\ \/ part = "session" /\ Session!Next
           \/ part = "member" /\ Member!Next
           \/ part = "login" /\ Login!Next
        /\ UNCHANGED <<vars, autoVars, driverVars, schedulesVars, tokenVars, streamVars,
             accessVars, plansVars, auditVars>>
     \/ /\ \/ part = "catalog" /\ Catalog!Next
           \/ part = "assign" /\ Assign!Next
        /\ UNCHANGED <<vars, autoVars, driverVars, schedulesVars, tokenVars, streamVars,
             accessVars, webVars, auditVars>>
     \/ /\ part = "audit" /\ Audit!Next
        /\ UNCHANGED <<vars, autoVars, driverVars, schedulesVars, tokenVars, streamVars,
             accessVars, webVars, plansVars>>

WebSpec == WebInit /\ [][WebNext]_WebVars

(* Two schedules of a guild never overlap, though their requests run at    *)
(* once and are dropped in the middle; a pending grace period always has a *)
(* timer that waits for it, unless a timer could neither stop its          *)
(* recording nor mark it failed; and no reader is served a bot token that  *)
(* was replaced before the change was answered.                            *)
GuildExact ==
  /\ part = "creations" => Creations!NoOverlap
  /\ part = "events" => Events!WaiterWaits
  /\ part = "tokens" => Tokens!CacheIsCurrent

(* A strict check looks at the roles as they are, and a cached guild is    *)
(* dropped with the change; a session that was logged out stays out, a     *)
(* stream ends with its session, and a login ends in the browser that      *)
(* began it; a user has as many streams as permits taken, and a stream     *)
(* shows every live row; a tenant has one plan at any time, whose anchor   *)
(* all its assignments share; and one prune of the audit trail runs at a   *)
(* time without losing a trigger.                                          *)
AccessIsCurrent ==
  /\ part = "admin" => Admin!TypeOK /\ Admin!GuildCacheFresh /\ Admin!StrictIsCurrent
  /\ part = "session" => Session!TypeOK /\ Session!LogoutFinal /\ Session!StreamEnds
  /\ part = "login" => Login!LoginIsOwn
  /\ part = "rows" => Rows!LiveDelivered
  /\ part = "permits" => Permits!PermitsExact
  /\ part = "assign" => Assign!ResolutionDeterminate /\ Assign!AnchorShared
  /\ part = "audit" => Audit!OnePrune /\ Audit!NoLostTrigger

(* The task of a lost driver never ends a later recording than the one it  *)
(* was started for; and no occurrence of a schedule is skipped by catching *)
(* up, nor is a canceled schedule taken up again. A session is not         *)
(* prolonged beyond its end; a user who left the guild is not served once  *)
(* the answer that says so is known, and a check that was overtaken is not *)
(* published, nor does an older refresh of the guild replace a newer one;  *)
(* nothing of a plan changes before its audit event is written, a plan in  *)
(* use is not archived, and a revoked assignment is final.                 *)
GuildAndWebSteps ==
  [][/\ part = "moves" => Moves!LaterKeptStep
     /\ part = "blind" => Blind!LaterKeptStep
     /\ part = "occurrences"
          => Occurrences!NoneSkippedStep /\ Occurrences!CanceledRestsStep
     /\ part = "session" => Session!SessionEndsStep
     /\ part = "member" => Member!StrangerOutStep /\ Member!PublishedInOrderStep
     /\ part = "admin" => Admin!RefreshMonotoneStep
     /\ part = "catalog" => Catalog!AuditedFirstStep /\ Catalog!ArchivedPlanKeptStep
     /\ part = "assign" => Assign!RevokedFinalStep]_WebVars
=============================================================================
