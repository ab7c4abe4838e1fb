----------------------------- MODULE MCAnswers ------------------------------
(***************************************************************************)
(* What a guild, a user or an administrator waits for, for TLC: small      *)
(* instances of the modules whose liveness is checked, MeetingSchedules    *)
(* with its safety. A behaviour is one of a single instance, named by      *)
(* part; the others rest in their initial state, so that the state spaces  *)
(* add up and do not multiply. Each property assumes the fairness of its   *)
(* own component.                                                          *)
(***************************************************************************)
EXTENDS MeetingSchedules, Sequences, FiniteSets

VARIABLES
  part,
  active, outcome, present, cached, auto, timers, event, unmarked, moves,
  activeDriver, outcomeDriver, chan, bot, cachedDriver, tasks, faults,
  db, cipher, cache, reader, admin, rev, gw, slow,
  status, rows, done, pending, clock, stream, count, allowed, retries,
  roles, channel, events, perm, guild, req, handled, newest, faultsAccess, expiries,
  nowWeb, member, left, states, nonce, jar, logins, ended, revoked, cacheWeb, inflight,
  reqWeb, streamWeb, faultsWeb, served,
  gate, caller, task, owed, stale

(* A channel that empties and fills, and a grace timer whose calls fail. *)
Empty == INSTANCE AutoStop WITH
  Meeting <- {"m1"}, Event <- {"e1", "e2"}, None <- None, Grace <- 2, MaxMisses <- 2,
  MaxFailures <- 2, MaxCleanups <- 2, MaxUnmarked <- 3, MaxMoves <- 2, Overlap <- FALSE,
  EventFaults <- FALSE, TimerFaults <- TRUE

(* A driver that is lost, while lookups, stops and cleanups fail.        *)
Lost == INSTANCE DriverDisconnect WITH
  Meeting <- {"m1", "m2"}, Channel <- {"c1"}, None <- None, MaxMisses <- 2,
  MaxLookups <- 2, MaxStops <- 2, MaxCleanups <- 2, MaxFaults <- 5, MaxReports <- 1,
  ResolveFaults <- FALSE,
  active <- activeDriver, outcome <- outcomeDriver, cached <- cachedDriver

(* Two readers, and an administrator who changes the token under a       *)
(* running gateway.                                                      *)
Reload == INSTANCE BotToken WITH
  Token <- {"t1"}, Global <- "global", Unreadable <- "unreadable", None <- None,
  Reader <- {"r1", "r2"}, Admin <- {"a1"}, Drops <- FALSE, MaxSlow <- 0, DbFails <- FALSE

(* Readers that share one refresh of the token and go away.              *)
Leaving == INSTANCE BotToken WITH
  Token <- {}, Global <- "global", Unreadable <- "unreadable", None <- None,
  Reader <- {"r1", "r2"}, Admin <- {"a1"}, Drops <- TRUE, MaxSlow <- 1, DbFails <- FALSE

(* A stream over a chunk and the final transcript of a meeting that is   *)
(* retried, with reads that fail.                                        *)
Shown == INSTANCE TranscriptStream WITH
  Chunk <- {"c1"}, Final <- "final", Stream <- {"s1"}, MaxRows <- 1, MaxCommits <- 2,
  MaxRetries <- 1, MaxIdle <- 2, MaxPerUser <- 2, Start <- "recording"

(* Two requests that share one refresh of the guild.                     *)
Waiting == INSTANCE AccessChecks WITH
  Request <- {"r1", "r2"}, Kinds <- {"admin"}, None <- None, MaxRoles <- 2,
  MaxChannel <- 1, MaxRetries <- 1, MaxFaults <- 1, MaxExpiries <- 0,
  faults <- faultsAccess

(* Two requests that share one check of the membership.                  *)
Following == INSTANCE WebSession WITH
  Browser <- {"b1"}, Request <- {"r1", "r2"}, None <- None, MaxTime <- 2, SessionTtl <- 3,
  VerifyInterval <- 4, CacheTtl <- 1, InflightTime <- 1, StateTtl <- 1,
  StreamInterval <- 1, MaxLogins <- 0, MaxFaults <- 1, MaxRequests <- 2,
  now <- nowWeb, cache <- cacheWeb, req <- reqWeb, stream <- streamWeb, faults <- faultsWeb

(* Three writers whose events trigger prunes.                            *)
Pruning == INSTANCE AuditTrail WITH
  Caller <- {"c1", "c2", "c3"}, BatchSize <- 1, MaxStale <- 1

ASSUME
  /\ Empty!GraceAssumption
  /\ Lost!LimitsAssumption
  /\ Shown!BoundsAssumption
  /\ Waiting!RequestAssumption /\ Waiting!BoundAssumption
  /\ Following!NoneAssumption /\ Following!BoundAssumption
  /\ Pruning!BoundAssumption

autoVars ==
  <<active, outcome, present, cached, auto, timers, event, unmarked, moves>>
driverVars ==
  <<activeDriver, outcomeDriver, chan, bot, cachedDriver, tasks, faults>>
tokenVars ==
  <<db, cipher, cache, reader, admin, rev, gw, slow>>
streamVars ==
  <<status, rows, done, pending, clock, stream, count, allowed, retries>>
accessVars ==
  <<roles, channel, events, perm, guild, req, handled, newest, faultsAccess, expiries>>
webVars ==
  <<nowWeb, member, left, states, nonce, jar, logins, ended, revoked, cacheWeb, inflight,
    reqWeb, streamWeb, faultsWeb, served>>
auditVars ==
  <<gate, caller, task, owed, stale>>
AnswerVars == <<part, vars, autoVars, driverVars, tokenVars, streamVars, accessVars, webVars, auditVars>>

AnswerInit ==
  /\ part \in {"week", "empty", "lost", "reload", "leaving", "shown", "waiting",
               "following", "pruning"}
  /\ Init
  /\ Empty!Init
  /\ Lost!Init
  /\ IF part = "reload" THEN Reload!Init ELSE Leaving!Init
  /\ part \notin {"reload", "leaving"} => db = None /\ cipher
  /\ Shown!Init
  /\ Waiting!Init
  /\ Following!Init
  /\ part # "following" => logins = 0
  /\ Pruning!Init

AnswerNext ==
  /\ UNCHANGED part
  /\ \/ /\ part = "week" /\ Next
        /\ UNCHANGED <<autoVars, driverVars, tokenVars, streamVars, accessVars, webVars,
             auditVars>>
     \/ /\ part = "empty" /\ Empty!Next
        /\ UNCHANGED <<vars, driverVars, tokenVars, streamVars, accessVars, webVars,
             auditVars>>
     \/ /\ part = "lost" /\ Lost!Next
        /\ UNCHANGED <<vars, autoVars, tokenVars, streamVars, accessVars, webVars,
             auditVars>>
     \/ /\ \/ part = "reload" /\ Reload!Next
           \/ part = "leaving" /\ Leaving!Next
        /\ UNCHANGED <<vars, autoVars, driverVars, streamVars, accessVars, webVars,
             auditVars>>
     \/ /\ part = "shown" /\ Shown!Next
        /\ UNCHANGED <<vars, autoVars, driverVars, tokenVars, accessVars, webVars,
             auditVars>>
     \/ /\ part = "waiting" /\ Waiting!Next
        /\ UNCHANGED <<vars, autoVars, driverVars, tokenVars, streamVars, webVars,
             auditVars>>
     \/ /\ part = "following" /\ Following!Next
        /\ UNCHANGED <<vars, autoVars, driverVars, tokenVars, streamVars, accessVars,
             auditVars>>
     \/ /\ part = "pruning" /\ Pruning!Next
        /\ UNCHANGED <<vars, autoVars, driverVars, tokenVars, streamVars, accessVars,
             webVars>>

AnswerSpec == AnswerInit /\ [][AnswerNext]_AnswerVars

(* A recording in a channel that stays empty ends, although the calls of   *)
(* its grace timer fail, unless the last of them does that marks it        *)
(* failed; one whose driver is lost ends, and the task that cares for it   *)
(* returns, although lookups, stops and cleanups fail; and the window of a *)
(* scheduled recording closes.                                             *)
StopsFollow ==
  /\ part = "empty" /\ Empty!Fairness => Empty!EmptyChannelEnds
  /\ part = "lost" /\ Lost!Fairness => Lost!DisconnectedEnds /\ Lost!TaskEnds
  /\ part = "week" /\ Fairness => WindowCloses

(* The lock of a schedule request is given back; whoever asks for the bot  *)
(* token is answered, and the gateway ends up with the token that is       *)
(* stored; a stream ends after the meeting; who waits for a refresh of the *)
(* guild or follows the check of another request is answered, although the *)
(* one who leads it is dropped or fails; and what an audit event has made  *)
(* stale is pruned.                                                        *)
AnswersFollow ==
  /\ part = "week" /\ Fairness => LockGivenBack
  /\ part = "reload" /\ Reload!Fairness
       => Reload!RequestAnswered /\ Reload!GatewayCatchesUp
  /\ part = "leaving" /\ Leaving!Fairness => Leaving!RequestAnswered
  /\ part = "shown" /\ Shown!Fairness => Shown!StreamEnds
  /\ part = "waiting" /\ Waiting!Fairness => Waiting!WaiterServed
  /\ part = "following" /\ Following!Fairness => Following!FollowerAnswered
  /\ part = "pruning" /\ Pruning!Fairness => Pruning!PruneFollows
=============================================================================
