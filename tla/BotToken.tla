------------------------------ MODULE BotToken ------------------------------
(***************************************************************************)
(* The Discord token of a guild.  Administrators store it, encrypted, or   *)
(* delete it; the web API reads it through a cache that one request        *)
(* refreshes while the others wait; the gateway runs with the token it     *)
(* read when it was started and is restarted when the revision changes.    *)
(***************************************************************************)
EXTENDS Naturals

CONSTANTS
  Token,      \* tokens a guild may store
  Global,     \* the token of the configuration
  Unreadable, \* what was stored under another key
  None,
  Reader,     \* requests that need the token
  Admin,      \* requests that change it
  Drops,      \* clients may go away while their request is handled
  MaxSlow,    \* bound on the refreshes that take too long
  DbFails     \* reads of the stored token may fail

ErrorStatus == {"service_unavailable", "bad_gateway", "internal_server_error"}

VARIABLES
  db,     \* the stored token, Unreadable or None
  cipher, \* is an encryption key configured?
  cache,  \* the web API's cache of the token
  reader,
  admin,
  rev,    \* the revision the gateway watches
  gw,     \* the gateway loop
  slow    \* refreshes that took too long

vars == <<db, cipher, cache, reader, admin, rev, gw, slow>>

NoCache == [entry |-> None, failure |-> None, revision |-> 0, refresh |-> None, old |-> FALSE]
Look == [phase |-> "look", on |-> None, revision |-> 0, got |-> None]
NoChange == [phase |-> "idle", token |-> None]
Stopped == [phase |-> "mark", seen |-> 0, token |-> None, ran |-> FALSE]

Init ==
  /\ db \in Token \cup {None, Unreadable} /\ cipher \in BOOLEAN
  /\ cache = NoCache
  /\ reader = [r \in Reader |-> [Look EXCEPT !.phase = "idle"]]
  /\ admin = [a \in Admin |-> NoChange]
  /\ rev = 0 /\ gw = Stopped /\ slow = 0

(* resolve_bot_token_from_record: a stored token that cannot be read is    *)
(* never replaced by the global one.                                       *)
Resolved ==
  IF db = None THEN Global
  ELSE IF ~cipher THEN "service_unavailable"
  ELSE IF db = Unreadable THEN "bad_gateway"
  ELSE db

(* What a read at this moment may give.                                    *)
Outcomes == {Resolved} \cup (IF DbFails THEN {"internal_server_error"} ELSE {})

-----------------------------------------------------------------------------
(* The cache.                                                              *)
Cached == cache.entry # None \/ cache.failure # None
CachedResult == IF cache.entry # None THEN cache.entry ELSE cache.failure
Done(result) == [Look EXCEPT !.phase = "done", !.got = result]

(* A refresh that takes too long is taken over.                            *)
FreshRefresh == cache.refresh # None /\ ~cache.old

Woken(rs, n) == [r \in Reader |-> IF rs[r].phase = "waiting" /\ rs[r].on = n THEN Look ELSE rs[r]]

Ask(r) ==
  /\ reader[r].phase = "idle"
  /\ reader' = [reader EXCEPT ![r] = Look]
  /\ UNCHANGED <<db, cipher, cache, admin, rev, gw, slow>>

AfterLook(otherwise) ==
  IF Cached THEN Done(CachedResult)
  ELSE IF FreshRefresh THEN [Look EXCEPT !.phase = "seen", !.on = cache.refresh]
  ELSE otherwise

LookUp(r) ==
  /\ reader[r].phase = "look"
  /\ reader' = [reader EXCEPT ![r] = AfterLook([Look EXCEPT !.phase = "lead"])]
  /\ UNCHANGED <<db, cipher, cache, admin, rev, gw, slow>>

(* The same again under the write lock.                                    *)
Lead(r) ==
  /\ reader[r].phase = "lead"
  /\ reader' = Woken([reader EXCEPT ![r] =
                        AfterLook([Look EXCEPT !.phase = "resolving", !.revision = cache.revision])],
                     IF Cached \/ FreshRefresh THEN None ELSE cache.refresh)
  /\ cache' = IF Cached \/ FreshRefresh THEN cache ELSE [cache EXCEPT !.refresh = r, !.old = FALSE]
  /\ UNCHANGED <<db, cipher, admin, rev, gw, slow>>

(* The lock is released before the waiter is registered: a wakeup in       *)
(* between is lost, and the timeout has to end the wait.                   *)
Register(r) ==
  /\ reader[r].phase = "seen"
  /\ reader' = [reader EXCEPT ![r].phase = "waiting"]
  /\ UNCHANGED <<db, cipher, cache, admin, rev, gw, slow>>

WaitTimesOut(r) ==
  /\ reader[r].phase = "waiting"
  /\ reader' = [reader EXCEPT ![r] = Look]
  /\ UNCHANGED <<db, cipher, cache, admin, rev, gw, slow>>

Resolve(r) ==
  /\ reader[r].phase = "resolving"
  /\ \E o \in Outcomes : reader' = [reader EXCEPT ![r].phase = "resolved", ![r].got = o]
  /\ UNCHANGED <<db, cipher, cache, admin, rev, gw, slow>>

(* Only the refresh that is still current may fill the cache.              *)
Publish(r) ==
  LET got == reader[r].got
      free == [cache EXCEPT !.refresh = None, !.old = FALSE]
      again == cache.refresh # r \/ (~Cached /\ cache.revision # reader[r].revision)
  IN /\ reader[r].phase = "resolved"
     /\ reader' = Woken([reader EXCEPT ![r] = IF again THEN Look
                                              ELSE Done(IF Cached THEN CachedResult ELSE got)],
                        IF cache.refresh = r THEN r ELSE None)
     /\ cache' = IF cache.refresh # r THEN cache
                 ELSE IF again \/ Cached THEN free
                 ELSE IF got \in ErrorStatus THEN [free EXCEPT !.failure = got]
                 ELSE [free EXCEPT !.entry = got, !.failure = None]
     /\ UNCHANGED <<db, cipher, admin, rev, gw, slow>>

(* The client of a request goes away; a refresh it leads stays behind.     *)
ReaderDropped(r) ==
  /\ Drops /\ reader[r].phase \notin {"idle", "done"}
  /\ reader' = [reader EXCEPT ![r] = Done(None)]
  /\ UNCHANGED <<db, cipher, cache, admin, rev, gw, slow>>

(* Time: the refresh gets old, because its request has gone or is slow;    *)
(* the entry and the failure expire.                                       *)
RefreshAges ==
  /\ cache.refresh # None /\ ~cache.old
  /\ IF reader[cache.refresh].phase = "done" THEN UNCHANGED slow ELSE slow < MaxSlow /\ slow' = slow + 1
  /\ cache' = [cache EXCEPT !.old = TRUE]
  /\ UNCHANGED <<db, cipher, reader, admin, rev, gw>>

CacheExpires ==
  /\ Cached
  /\ cache' = [cache EXCEPT !.entry = None, !.failure = None]
  /\ UNCHANGED <<db, cipher, reader, admin, rev, gw, slow>>

-----------------------------------------------------------------------------
(* The administrator's requests.  A token is stored once Discord has said  *)
(* that it is a bot's and sees the guild, and if there is a key to encrypt *)
(* it with.                                                                *)
Verdict == {"accepted", "invalid_token", "not_bot_token", "guild_access_denied", "upstream"}

UpdateToken(a, t, verdict) ==
  /\ admin[a] = NoChange
  /\ admin' = [admin EXCEPT ![a] = IF cipher /\ verdict = "accepted"
                                   THEN [phase |-> "validated", token |-> t]
                                   ELSE [NoChange EXCEPT !.phase = "done"]]
  /\ UNCHANGED <<db, cipher, cache, reader, rev, gw, slow>>

StoreToken(a) ==
  /\ admin[a].phase = "validated"
  /\ db' = admin[a].token
  /\ admin' = [admin EXCEPT ![a].phase = "stored"]
  /\ UNCHANGED <<cipher, cache, reader, rev, gw, slow>>

(* Deleting what is not there changes nothing.                             *)
DeleteToken(a) ==
  /\ admin[a] = NoChange
  /\ admin' = [admin EXCEPT ![a].phase = IF db = None THEN "done" ELSE "clearing"]
  /\ UNCHANGED <<db, cipher, cache, reader, rev, gw, slow>>

(* The routes that name the guild do the same.                             *)
UpdateTargetToken(a, t, verdict) == UpdateToken(a, t, verdict)
DeleteTargetToken(a) == DeleteToken(a)

ClearToken(a) ==
  /\ admin[a].phase = "clearing"
  /\ db' = None
  /\ admin' = [admin EXCEPT ![a].phase = "stored"]
  /\ UNCHANGED <<cipher, cache, reader, rev, gw, slow>>

InvalidateCaches(a) ==
  /\ admin[a].phase = "stored"
  /\ cache' = [NoCache EXCEPT !.revision = cache.revision + 1]
  /\ reader' = Woken(reader, cache.refresh)
  /\ admin' = [admin EXCEPT ![a].phase = "invalidated"]
  /\ UNCHANGED <<db, cipher, rev, gw, slow>>

NotifyBotTokenChanged(a) ==
  /\ admin[a].phase = "invalidated"
  /\ rev' = rev + 1
  /\ admin' = [admin EXCEPT ![a].phase = "done"]
  /\ UNCHANGED <<db, cipher, cache, reader, gw, slow>>

(* A change that was stored and dropped is lost on the cache and on the    *)
(* gateway.                                                                *)
AdminDropped(a) ==
  /\ Drops /\ admin[a].phase \in {"validated", "clearing", "stored", "invalidated"}
  /\ admin' = [admin EXCEPT ![a].phase = IF @ = "stored" THEN "lost" ELSE "done"]
  /\ UNCHANGED <<db, cipher, cache, reader, rev, gw, slow>>

-----------------------------------------------------------------------------
(* The gateway loop: it marks the revision, reads the token, and runs      *)
(* until the revision moves on.                                            *)
GatewayMark ==
  /\ gw.phase = "mark"
  /\ gw' = [gw EXCEPT !.phase = "resolving", !.seen = rev]
  /\ UNCHANGED <<db, cipher, cache, reader, admin, rev, slow>>

GatewayStart ==
  /\ gw.phase = "resolving"
  /\ \E o \in Outcomes :
       gw' = IF o = "internal_server_error" THEN [gw EXCEPT !.phase = "exited"]
             ELSE IF o \in ErrorStatus THEN [gw EXCEPT !.phase = "repair"]
             ELSE [gw EXCEPT !.phase = "starting", !.token = o]
  /\ UNCHANGED <<db, cipher, cache, reader, admin, rev, slow>>

(* run_bot migrates, recovers and connects before it listens for changes.  *)
RunBot ==
  /\ gw.phase = "starting"
  /\ gw' = [gw EXCEPT !.phase = "running", !.ran = TRUE]
  /\ UNCHANGED <<db, cipher, cache, reader, admin, rev, slow>>

WaitForRevisionChange ==
  /\ gw.phase \in {"running", "repair"} /\ rev # gw.seen
  /\ gw' = [gw EXCEPT !.phase = "mark", !.seen = rev, !.token = None]
  /\ UNCHANGED <<db, cipher, cache, reader, admin, rev, slow>>

(* The client of the gateway ends, or a signal is heard.  A process that   *)
(* once listened for signals and waits for a repair does not hear them.    *)
ShutdownSignal ==
  /\ gw.phase = "running" \/ ~gw.ran
  /\ gw.phase # "exited"
  /\ gw' = [gw EXCEPT !.phase = "exited"]
  /\ UNCHANGED <<db, cipher, cache, reader, admin, rev, slow>>

-----------------------------------------------------------------------------
Next ==
  \/ \E r \in Reader : \/ Ask(r) \/ LookUp(r) \/ Lead(r) \/ Register(r) \/ WaitTimesOut(r)
                       \/ Resolve(r) \/ Publish(r) \/ ReaderDropped(r)
  \/ RefreshAges \/ CacheExpires
  \/ \E a \in Admin : \/ \E t \in Token, v \in Verdict : UpdateToken(a, t, v) \/ UpdateTargetToken(a, t, v)
                      \/ DeleteToken(a) \/ DeleteTargetToken(a) \/ StoreToken(a) \/ ClearToken(a)
                      \/ InvalidateCaches(a) \/ NotifyBotTokenChanged(a) \/ AdminDropped(a)
  \/ GatewayMark \/ GatewayStart \/ RunBot \/ WaitForRevisionChange \/ ShutdownSignal

(* Handlers, the gateway loop and timers run; the database answers.        *)
Fairness ==
  /\ \A r \in Reader : /\ WF_vars(LookUp(r)) /\ WF_vars(Lead(r)) /\ WF_vars(Register(r))
                       /\ WF_vars(WaitTimesOut(r)) /\ WF_vars(Resolve(r)) /\ WF_vars(Publish(r))
  /\ WF_vars(RefreshAges)
  /\ \A a \in Admin : WF_vars(StoreToken(a) \/ ClearToken(a) \/ InvalidateCaches(a) \/ NotifyBotTokenChanged(a))
  /\ WF_vars(GatewayMark) /\ WF_vars(GatewayStart) /\ WF_vars(RunBot) /\ WF_vars(WaitForRevisionChange)

Spec == Init /\ [][Next]_vars /\ Fairness

-----------------------------------------------------------------------------
(* While every change goes through the cache, the token that is cached     *)
(* afterwards is the one that is stored: a refresh that read the token before the     *)
(* change, or that was taken over, never fills the cache afterwards.       *)
CacheIsCurrent ==
  cache.entry # None /\ (\A a \in Admin : admin[a].phase \notin {"stored", "lost"}) => cache.entry = Resolved

(* Every request is answered, also when it waits for a refresh whose       *)
(* wakeup it missed or whose client has gone.                              *)
RequestAnswered == \A r \in Reader : reader[r].phase = "look" ~> reader[r].phase = "done"

(* The gateway ends up with the token that is stored, or waits when there  *)
(* is none it can read, whenever the change came between its steps.        *)
GatewayCatchesUp ==
  <>[](\/ gw.phase = "exited"
       \/ IF Resolved \in ErrorStatus THEN gw.phase = "repair"
          ELSE gw.phase = "running" /\ gw.token = Resolved)
=============================================================================
