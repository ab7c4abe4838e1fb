---------------------------- MODULE AccessChecks ----------------------------
(***************************************************************************)
(* May this user see this channel, or administer the guild?  Requests ask  *)
(* a permission cache, then compute the answer from the guild's roles,     *)
(* which come from a cache that one leader refreshes while others wait,    *)
(* and from the channel or the member, which are always fetched.  A strict *)
(* administrator check uses neither cache.  Gateway events drop what they  *)
(* make stale.  A client may go away at any await; its request is then     *)
(* dropped where it stands.                                                *)
(*                                                                         *)
(* Roles and channel are version numbers: an answer is as good as the      *)
(* versions it was computed from.  0 stands for "none".                    *)
(***************************************************************************)
EXTENDS Naturals, FiniteSets

CONSTANTS
  Request,
  Kinds,       \* the questions asked: "channel", "admin", "strict"
  None,
  MaxRoles,    \* bound on versions of the roles
  MaxChannel,  \* bound on versions of the channel
  MaxRetries,  \* PERMISSION_CHECK_MAX_STALE_RETRIES
  MaxFaults,   \* bound on failed and slow fetches, dropped and repeated requests
  MaxExpiries  \* bound on entries that run out

RequestAssumption == None \notin Request
BoundAssumption ==
  /\ Kinds \subseteq {"channel", "admin", "strict"}
  /\ {MaxRoles, MaxChannel} \subseteq Nat \ {0}
  /\ {MaxRetries, MaxFaults, MaxExpiries} \subseteq Nat

VARIABLES
  roles,       \* version of the roles at Discord
  channel,     \* version of the channel at Discord
  events,      \* gateway events: kind and version -> how far handled
  perm,        \* PermissionCache: entry and revision
  guild,       \* GuildCache: entry, failure, revision, refresh
  req,         \* what a request is doing
  handled,     \* versions whose events were handled when a request began
  newest,      \* newest roles ever published in the guild cache
  faults, expiries

vars == <<roles, channel, events, perm, guild, req, handled, newest, faults, expiries>>
discord == <<roles, channel>>

NoEntry == [roles |-> 0, channel |-> 0]
Event == ({"roles"} \X (2 .. MaxRoles)) \cup ({"channel"} \X (2 .. MaxChannel))
Idle == [pc |-> "idle", kind |-> "channel", roles |-> 0, channel |-> 0, bad |-> FALSE, seen |-> 0, seenGuild |-> 0, left |-> 0]
NoRefresh == [leader |-> None, old |-> FALSE]

Init ==
  /\ roles = 1 /\ channel = 1
  /\ events = [e \in Event |-> "none"]
  /\ perm = [entry |-> NoEntry, admin |-> 0, rev |-> 0]
  /\ guild = [entry |-> 0, failure |-> FALSE, rev |-> 0, refresh |-> NoRefresh]
  /\ req = [r \in Request |-> Idle]
  /\ handled = [r \in Request |-> [roles |-> 0, channel |-> 0, began |-> 0]]
  /\ newest = 0
  /\ faults = 0 /\ expiries = 0

Newest(S) == CHOOSE v \in S \cup {0} : \A w \in S : w <= v
HandledVersion(kind) == Newest({e[2] : e \in {x \in Event : x[1] = kind /\ events[x] = "done"}})

-----------------------------------------------------------------------------
(* Discord and the gateway.                                                *)

ChangeRoles ==
  /\ roles < MaxRoles
  /\ roles' = roles + 1
  /\ events' = [events EXCEPT ![<<"roles", roles + 1>>] = "sent"]
  /\ UNCHANGED <<channel, perm, guild, req, handled, newest, faults, expiries>>

ChangeChannel ==
  /\ channel < MaxChannel
  /\ channel' = channel + 1
  /\ events' = [events EXCEPT ![<<"channel", channel + 1>>] = "sent"]
  /\ UNCHANGED <<roles, perm, guild, req, handled, newest, faults, expiries>>

(* guild_role_update, guild_role_delete and guild_update drop every        *)
(* permission, channel_update and channel_delete those of the channel; the *)
(* guild is dropped afterwards.                                            *)
ClearPermissionCache(e) ==
  /\ events[e] = "sent"
  /\ events' = [events EXCEPT ![e] = "half"]
  /\ perm' = [entry |-> NoEntry, admin |-> IF e[1] = "roles" THEN 0 ELSE perm.admin,
              rev |-> perm.rev + 1]
  /\ UNCHANGED <<discord, guild, req, handled, newest, faults, expiries>>

InvalidateGuildCache(e) ==
  /\ events[e] = "half"
  /\ events' = [events EXCEPT ![e] = "done"]
  /\ guild' = [entry |-> 0, failure |-> FALSE, rev |-> guild.rev + 1, refresh |-> NoRefresh]
  /\ UNCHANGED <<discord, perm, req, handled, newest, faults, expiries>>

(* guild_member_removal, guild_member_update, guild_ban_addition, and a    *)
(* failed membership check drop the user's entries.                        *)
InvalidateForUser ==
  /\ expiries < MaxExpiries
  /\ expiries' = expiries + 1
  /\ perm' = [entry |-> NoEntry, admin |-> 0, rev |-> perm.rev + 1]
  /\ UNCHANGED <<discord, events, guild, req, handled, newest, faults>>

-----------------------------------------------------------------------------
(* A request.                                                              *)

(* What the permission cache answers at once.                              *)
Hit(kind) ==
  CASE kind = "channel" -> perm.entry
    [] kind = "admin"   -> [roles |-> perm.admin, channel |-> 0]
    [] OTHER            -> NoEntry

(* The strict check goes straight to Discord.                              *)
FirstStep(kind) == IF kind = "strict" THEN "fetchOwn" ELSE "check"

Begin(r, kind) ==
  /\ req[r].pc = "idle"
  /\ handled' = [handled EXCEPT ![r] =
       [roles |-> HandledVersion("roles"), channel |-> HandledVersion("channel"), began |-> roles]]
  /\ req' = [req EXCEPT ![r] =
       IF Hit(kind) # NoEntry
       THEN [Idle EXCEPT !.pc = "answered", !.kind = kind,
                         !.roles = Hit(kind).roles, !.channel = Hit(kind).channel]
       ELSE [Idle EXCEPT !.pc = FirstStep(kind), !.kind = kind, !.seen = perm.rev, !.left = MaxRetries]]
  /\ UNCHANGED <<discord, events, perm, guild, newest, faults, expiries>>

Fail(r) == req' = [req EXCEPT ![r].pc = "failed"]
Use(r, v) == req' = [req EXCEPT ![r].pc = "guild", ![r].roles = v]
Cached == guild.entry # 0 \/ guild.failure
TakeCached(r) == IF guild.entry # 0 THEN Use(r, guild.entry) ELSE Fail(r)

FreshRefresh == guild.refresh.leader # None /\ ~guild.refresh.old

(* Cache, or wait for a fresh refresh, or lead one.                        *)
GuildInfo(r) ==
  /\ req[r].pc = "check"
  /\ \/ /\ Cached
        /\ TakeCached(r)
        /\ UNCHANGED guild
     \/ /\ ~Cached /\ FreshRefresh
        /\ req' = [req EXCEPT ![r].pc = "wait"]
        /\ UNCHANGED guild
     \/ /\ ~Cached /\ ~FreshRefresh
        /\ guild' = [guild EXCEPT !.refresh = [leader |-> r, old |-> FALSE]]
        /\ req' = [req EXCEPT ![r].pc = "fetch", ![r].seenGuild = guild.rev]
  /\ UNCHANGED <<discord, events, perm, handled, newest, faults, expiries>>

(* Notified, or the wait has timed out.                                    *)
Waited(r) ==
  /\ req[r].pc = "wait"
  /\ req' = [req EXCEPT ![r].pc = "check"]
  /\ UNCHANGED <<discord, events, perm, guild, handled, newest, faults, expiries>>

(* GUILD_CACHE_REFRESH_INFLIGHT_SECS have passed: the leader was dropped,  *)
(* or its fetch is slow.                                                   *)
RefreshAges ==
  /\ guild.refresh.leader # None /\ ~guild.refresh.old
  /\ \/ req[guild.refresh.leader].pc \notin {"fetch", "publish"} /\ UNCHANGED faults
     \/ /\ req[guild.refresh.leader].pc = "fetch"
        /\ faults < MaxFaults /\ faults' = faults + 1
  /\ guild' = [guild EXCEPT !.refresh.old = TRUE]
  /\ UNCHANGED <<discord, events, perm, req, handled, newest, expiries>>

(* The leader of a refresh, or a strict check for itself.                  *)
FetchGuildInfo(r) ==
  /\ req[r].pc \in {"fetch", "fetchOwn"}
  /\ \/ /\ req' = [req EXCEPT ![r].pc = IF @ = "fetch" THEN "publish" ELSE "guild", ![r].roles = roles]
        /\ UNCHANGED faults
     \/ /\ faults < MaxFaults
        /\ req' = [req EXCEPT ![r].pc = IF @ = "fetch" THEN "publish" ELSE "failed", ![r].roles = 0]
        /\ faults' = faults + 1
  /\ UNCHANGED <<discord, events, perm, guild, handled, newest, expiries>>

IsCurrentRefresh(r) == guild.refresh.leader = r

Unchanged(r) == guild.rev = req[r].seenGuild

(* Cached and Unchanged are tested again: neither can have changed for the *)
(* current refresh, since whoever changes them takes the refresh away.     *)
PublishGuildInfo(r) ==
  /\ req[r].pc = "publish"
  /\ LET value == req[r].roles
         kept == [guild EXCEPT !.refresh = NoRefresh] IN
     \/ /\ ~IsCurrentRefresh(r)
        /\ req' = [req EXCEPT ![r].pc = IF Unchanged(r) THEN "check" ELSE "failed"]
        /\ UNCHANGED <<guild, newest>>
     \/ /\ IsCurrentRefresh(r) /\ value # 0
        /\ IF Cached THEN TakeCached(r) ELSE IF Unchanged(r) THEN Use(r, value) ELSE Fail(r)
        /\ guild' = IF Cached \/ ~Unchanged(r) THEN kept ELSE [kept EXCEPT !.entry = value]
        /\ newest' = IF guild'.entry > newest THEN guild'.entry ELSE newest
     \/ /\ IsCurrentRefresh(r) /\ value = 0
        /\ IF Cached THEN TakeCached(r) ELSE Fail(r)
        /\ guild' = IF Cached \/ ~Unchanged(r) THEN kept ELSE [kept EXCEPT !.failure = TRUE]
        /\ UNCHANGED newest
  /\ UNCHANGED <<discord, events, perm, handled, faults, expiries>>

(* Channel and member are fetched while the guild is.                      *)
FetchChannel(r) ==
  /\ req[r].pc \in {"check", "wait", "fetch", "publish", "guild"}
  /\ req[r].kind = "channel" /\ req[r].channel = 0 /\ ~req[r].bad
  /\ \/ req' = [req EXCEPT ![r].channel = channel] /\ UNCHANGED faults
     \/ /\ faults < MaxFaults
        /\ req' = [req EXCEPT ![r].bad = TRUE]
        /\ faults' = faults + 1
  /\ UNCHANGED <<discord, events, perm, guild, handled, newest, expiries>>

(* Mutant: only an empty entry is looked at, not the revision.             *)
MutStillCurrent(r) == perm.entry = NoEntry

StillCurrent(r) == perm.rev = req[r].seen

(* The decision is stored, or computed again if an event came between;     *)
(* after the last retry it is served without being stored.                 *)
CacheChannelPermission(r) ==
  /\ req[r].pc = "guild" /\ req[r].kind = "channel"
  /\ req[r].channel # 0 \/ req[r].bad
  /\ IF req[r].bad THEN Fail(r) /\ UNCHANGED perm
     ELSE IF StillCurrent(r)
     THEN /\ perm' = [perm EXCEPT !.entry = [roles |-> req[r].roles, channel |-> req[r].channel]]
          /\ req' = [req EXCEPT ![r].pc = "answered"]
     ELSE /\ req' = [req EXCEPT ![r] =
               IF @.left = 0 THEN [@ EXCEPT !.pc = "answered"]
               ELSE [Idle EXCEPT !.pc = "check", !.seen = perm.rev, !.left = req[r].left - 1]]
          /\ UNCHANGED perm
  /\ UNCHANGED <<discord, events, guild, handled, newest, faults, expiries>>

(* The owner, or a member whose roles were just fetched.  Only the lenient *)
(* check stores its decision, and it does not compute it again.            *)
CacheGuildAdminPermission(r) ==
  /\ req[r].pc = "guild" /\ req[r].kind # "channel"
  /\ \/ /\ req' = [req EXCEPT ![r].pc = "answered"]
        /\ perm' = IF req[r].kind = "admin" /\ StillCurrent(r)
                   THEN [perm EXCEPT !.admin = req[r].roles] ELSE perm
        /\ UNCHANGED faults
     \/ /\ faults < MaxFaults
        /\ Fail(r) /\ UNCHANGED perm
        /\ faults' = faults + 1
  /\ UNCHANGED <<discord, events, guild, handled, newest, expiries>>

(* The user asks again.                                                    *)
Again(r) ==
  /\ req[r].pc \in {"answered", "failed"}
  /\ faults < MaxFaults
  /\ req' = [req EXCEPT ![r] = Idle]
  /\ faults' = faults + 1
  /\ UNCHANGED <<discord, events, perm, guild, handled, newest, expiries>>

(* The client goes away; a leader leaves its refresh behind.               *)
Drop(r) ==
  /\ req[r].pc \in {"check", "wait", "fetch", "fetchOwn", "publish", "guild"}
  /\ faults < MaxFaults
  /\ req' = [req EXCEPT ![r].pc = "dropped"]
  /\ faults' = faults + 1
  /\ UNCHANGED <<discord, events, perm, guild, handled, newest, expiries>>

Expire ==
  /\ expiries < MaxExpiries
  /\ expiries' = expiries + 1
  /\ \/ perm.entry # NoEntry /\ perm' = [perm EXCEPT !.entry = NoEntry] /\ UNCHANGED guild
     \/ perm.admin # 0 /\ perm' = [perm EXCEPT !.admin = 0] /\ UNCHANGED guild
     \/ guild.entry # 0 /\ guild' = [guild EXCEPT !.entry = 0] /\ UNCHANGED perm
     \/ guild.failure /\ guild' = [guild EXCEPT !.failure = FALSE] /\ UNCHANGED perm
  /\ UNCHANGED <<discord, events, req, handled, newest, faults>>

Work(r) ==
  \/ GuildInfo(r) \/ Waited(r) \/ FetchGuildInfo(r) \/ PublishGuildInfo(r)
  \/ FetchChannel(r) \/ CacheChannelPermission(r) \/ CacheGuildAdminPermission(r)

Next ==
  \/ ChangeRoles \/ ChangeChannel \/ InvalidateForUser \/ RefreshAges \/ Expire
  \/ \E e \in Event : ClearPermissionCache(e) \/ InvalidateGuildCache(e)
  \/ \E r \in Request : (\E kind \in Kinds : Begin(r, kind)) \/ Work(r) \/ Again(r) \/ Drop(r)

Spec == Init /\ [][Next]_vars

(* The runtime polls every future that can go on, and time passes.         *)
Fairness ==
  /\ WF_vars(RefreshAges)
  /\ \A e \in Event : WF_vars(InvalidateGuildCache(e))
  /\ \A r \in Request :
       /\ WF_vars(GuildInfo(r)) /\ WF_vars(Waited(r)) /\ WF_vars(FetchGuildInfo(r))
       /\ WF_vars(PublishGuildInfo(r)) /\ WF_vars(FetchChannel(r))
       /\ WF_vars(CacheChannelPermission(r)) /\ WF_vars(CacheGuildAdminPermission(r))

FairSpec == Spec /\ Fairness

-----------------------------------------------------------------------------
TypeOK ==
  /\ roles \in 1 .. MaxRoles /\ channel \in 1 .. MaxChannel
  /\ events \in [Event -> {"none", "sent", "half", "done"}]
  /\ perm.entry \in [roles : 0 .. MaxRoles, channel : 0 .. MaxChannel]
  /\ (perm.entry.roles = 0) = (perm.entry.channel = 0)
  /\ guild.entry \in 0 .. MaxRoles
  /\ guild.refresh.leader \in Request \cup {None}
  /\ \A r \in Request :
       /\ req[r].pc \in {"idle", "check", "wait", "fetch", "fetchOwn", "publish", "guild", "answered",
                         "failed", "dropped"}
       /\ req[r].left \in 0 .. MaxRetries
       /\ req[r].pc \in {"guild", "answered"} => req[r].roles \in 1 .. MaxRoles

(* Once the events of a change are handled, the guild cache holds nothing  *)
(* older, though a refresh may have been under way all the time.           *)
GuildCacheFresh == guild.entry # 0 => guild.entry >= HandledVersion("roles")

(* A refresh that was overtaken never replaces newer roles with older.     *)
RefreshMonotoneStep ==
  guild'.entry # 0 /\ guild'.entry # guild.entry => guild'.entry >= newest

RefreshMonotone == [][RefreshMonotoneStep]_vars

(* No decision about a channel outlives the event that may have revoked    *)
(* it, neither in the cache nor as an answer to a request that began after *)
(* the event was handled.                                                  *)
ChannelDecisionFresh ==
  /\ perm.entry # NoEntry => perm.entry.channel >= HandledVersion("channel")
  /\ \A r \in Request :
       req[r].pc = "answered" /\ req[r].kind = "channel" => req[r].channel >= handled[r].channel

(* A strict administrator check is never answered from roles that were     *)
(* already replaced when it began, whatever the caches hold.               *)
StrictIsCurrent ==
  \A r \in Request :
    req[r].pc = "answered" /\ req[r].kind = "strict" => req[r].roles >= handled[r].began

(* What the caches hold and what requests are told is never older than the *)
(* events that were handled before, whoever refreshes, waits, retries or   *)
(* goes away in between.                                                   *)
AccessCurrent == TypeOK /\ GuildCacheFresh /\ ChannelDecisionFresh

(* The same for the roles the decision was computed from.                  *)
RolesDecisionFresh == perm.entry # NoEntry => perm.entry.roles >= HandledVersion("roles")

(* A request that waits for another one's refresh gets its answer even if  *)
(* that one's client has gone away.                                        *)
WaiterServed ==
  \A r \in Request : req[r].pc = "wait" ~> req[r].pc \in {"answered", "failed", "dropped"}
=============================================================================
