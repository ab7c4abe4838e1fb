------------------------- MODULE AccessChecksProofs -------------------------
(***************************************************************************)
(* Proofs about AccessChecks, for every number of requests, of changes of  *)
(* the roles and the channel, of retries and of faults: nothing that was   *)
(* computed before an event is served or kept after it was handled.        *)
(***************************************************************************)
EXTENDS AccessChecks, WellFoundedInduction, TLAPS

AccessAssumption == RequestAssumption /\ BoundAssumption

(***************************************************************************)
(* The inductive invariant.                                                *)
(***************************************************************************)

Places == {"idle", "check", "wait", "fetch", "fetchOwn", "publish", "guild", "answered",
           "failed", "dropped"}

Questions == [pc : Places, kind : {"channel", "admin", "strict"}, roles : 0 .. MaxRoles,
              channel : 0 .. MaxChannel, bad : BOOLEAN, seen : Nat, seenGuild : Nat,
              left : 0 .. MaxRetries]

Decisions == [entry : [roles : 0 .. MaxRoles, channel : 0 .. MaxChannel],
              admin : 0 .. MaxRoles, rev : Nat]

Guilds == [entry : 0 .. MaxRoles, failure : BOOLEAN, rev : Nat,
           refresh : [leader : Request \cup {None}, old : BOOLEAN]]

Types ==
    /\ roles \in 1 .. MaxRoles /\ channel \in 1 .. MaxChannel
    /\ events \in [Event -> {"none", "sent", "half", "done"}]
    /\ perm \in Decisions /\ guild \in Guilds /\ req \in [Request -> Questions]
    /\ handled \in [Request -> [roles : Nat, channel : Nat, began : Nat]]
    /\ newest \in 0 .. MaxRoles

(* An event announces a version that Discord has by then. *)
Announced ==
    \A e \in Event : events[e] # "none" =>
        /\ e[1] = "roles" => e[2] <= roles
        /\ e[1] = "channel" => e[2] <= channel

(* The permission cache has dropped what was computed before version v of      *)
(* the channel.                                                                *)
ClearedSince(v) ==
    \A e \in Event : e[1] = "channel" /\ events[e] \in {"half", "done"} => e[2] <= v

InvalidatedSince(v) ==
    \A e \in Event : e[1] = "roles" /\ events[e] = "done" => e[2] <= v

(* A stored decision names both of what it was computed from, and the          *)
(* channel is not older than an event that has cleared the cache.              *)
EntryWhole ==
    /\ perm.entry.roles = 0 <=> perm.entry.channel = 0
    /\ perm.entry.channel # 0 => ClearedSince(perm.entry.channel)

(* A request that has fetched the channel did so after it began, and as long   *)
(* as the cache's revision is the one it saw, after every clearing as well.    *)
FetchedSince ==
    \A r \in Request :
        /\ req[r].seen <= perm.rev
        /\ handled[r].channel <= channel
        /\ req[r].channel # 0 =>
             /\ req[r].channel >= handled[r].channel
             /\ req[r].seen = perm.rev => ClearedSince(req[r].channel)

(* A decision is made from roles, and from a channel if it is about one. *)
DecidedFrom ==
    \A r \in Request :
        /\ req[r].pc \in {"guild", "answered"} => req[r].roles # 0
        /\ req[r].pc = "answered" /\ req[r].kind = "channel" => req[r].channel # 0

(* What the guild cache holds, and what its current leader has fetched, is as  *)
(* new as every event that has invalidated it and as all that was published.   *)
GuildFresh ==
    /\ guild.entry # 0 => InvalidatedSince(guild.entry)
    /\ guild.entry <= newest /\ newest <= roles
    /\ \A r \in Request :
         guild.refresh.leader = r /\ req[r].pc = "publish" /\ req[r].roles # 0 =>
           req[r].roles \in newest .. roles /\ InvalidatedSince(req[r].roles)

(* A strict check neither waits for a refresh nor leads one, and has fetched   *)
(* for itself.                                                                 *)
StrictAlone ==
    \A r \in Request :
        /\ handled[r].began <= roles
        /\ req[r].kind = "strict" =>
             /\ req[r].pc \notin {"check", "wait", "fetch", "publish"}
             /\ req[r].pc \in {"guild", "answered"} => req[r].roles >= handled[r].began

AccessInv ==
    /\ Types /\ Announced /\ EntryWhole /\ FetchedSince /\ DecidedFrom
    /\ GuildFresh /\ StrictAlone

(***************************************************************************)
(* What the building blocks do.                                            *)
(***************************************************************************)

LEMMA Bounds ==
  ASSUME AccessAssumption
  PROVE  /\ MaxRoles \in Nat \ {0} /\ MaxChannel \in Nat \ {0} /\ MaxRetries \in Nat
         /\ None \notin Request
         /\ \A v \in 2 .. MaxRoles : <<"roles", v>> \in Event
         /\ \A v \in 2 .. MaxChannel : <<"channel", v>> \in Event
         /\ \A e \in Event : e[2] \in Nat
BY DEF AccessAssumption, RequestAssumption, BoundAssumption, Event

(* A bounded set of numbers has a greatest one. *)
LEMMA NewestIsIn ==
  ASSUME NEW n \in Nat, NEW S, S \subseteq 0 .. n
  PROVE  Newest(S) \in S \cup {0}
<1> DEFINE below == OpToRel(<, Nat)
           T == {n - v : v \in S \cup {0}}
<1>1. T \subseteq Nat /\ T # {}
  OBVIOUS
<1>2. IsWellFoundedOn(below, Nat)
  BY NatLessThanWellFounded
<1> HIDE DEF below, T
<1>3. PICK m \in T : \A d \in T : ~(<<d, m>> \in below)
  BY <1>1, <1>2, WFMin
<1>4. \A d \in T : ~(d < m)
  BY <1>1, <1>3 DEF below, OpToRel
<1>5. PICK v \in S \cup {0} : m = n - v
  BY DEF T
<1>6. \A w \in S : n - w \in T
  BY DEF T
<1>7. \A w \in S : w <= v
  BY <1>1, <1>4, <1>5, <1>6
<1>8. QED
  BY <1>7 DEF Newest

(* The newest version whose event was handled is that of an event. *)
LEMMA HandledIs ==
  ASSUME AccessAssumption, NEW kind \in {"roles", "channel"}
  PROVE  \/ HandledVersion(kind) = 0
         \/ \E e \in Event : e[1] = kind /\ events[e] = "done" /\ e[2] = HandledVersion(kind)
<1> DEFINE S == {e[2] : e \in {x \in Event : x[1] = kind /\ events[x] = "done"}}
<1>1. \E n \in Nat : S \subseteq 0 .. n
  <2>1. CASE kind = "roles"
    BY <2>1, Bounds DEF Event
  <2>2. CASE kind = "channel"
    BY <2>2, Bounds DEF Event
  <2>3. QED
    BY <2>1, <2>2
<1>2. Newest(S) \in S \cup {0}
  BY <1>1, NewestIsIn
<1>3. QED
  BY <1>2 DEF HandledVersion

(* After the step, r is at p with this question, and no other request has      *)
(* moved.                                                                      *)
Asks(r, p, k, ro, ch, se) ==
    /\ req' \in [Request -> Questions]
    /\ \A q \in Request : q # r => req'[q] = req[q]
    /\ req'[r].pc = p /\ req'[r].kind = k /\ req'[r].roles = ro
    /\ req'[r].channel = ch /\ req'[r].seen = se

(* The guild cache has this entry and this leader. *)
GuildIs(entry, leader) ==
    guild' \in Guilds /\ guild'.entry = entry /\ guild'.refresh.leader = leader

(* The permission cache has a decision from these roles and this channel. *)
PermIs(ro, ch, rev) ==
    perm' \in Decisions /\ perm'.entry.roles = ro /\ perm'.entry.channel = ch /\ perm'.rev = rev

LEMMA Moves ==
  ASSUME Types, NEW r \in Request, NEW p \in Places
  PROVE  /\ req' = [req EXCEPT ![r].pc = p] =>
              Asks(r, p, req[r].kind, req[r].roles, req[r].channel, req[r].seen)
         /\ \A v \in 0 .. MaxRoles :
              req' = [req EXCEPT ![r].pc = p, ![r].roles = v] =>
                Asks(r, p, req[r].kind, v, req[r].channel, req[r].seen)
         /\ \A n \in Nat :
              req' = [req EXCEPT ![r].pc = p, ![r].seenGuild = n] =>
                Asks(r, p, req[r].kind, req[r].roles, req[r].channel, req[r].seen)
<1>1. req \in [Request -> Questions]
  BY DEF Types
<1>2. ASSUME req' = [req EXCEPT ![r].pc = p]
      PROVE  Asks(r, p, req[r].kind, req[r].roles, req[r].channel, req[r].seen)
  BY <1>1, <1>2 DEF Asks, Questions
<1>3. ASSUME NEW v \in 0 .. MaxRoles, req' = [req EXCEPT ![r].pc = p, ![r].roles = v]
      PROVE  Asks(r, p, req[r].kind, v, req[r].channel, req[r].seen)
  BY <1>1, <1>3, ZenonT(60) DEF Asks, Questions
<1>4. ASSUME NEW n \in Nat, req' = [req EXCEPT ![r].pc = p, ![r].seenGuild = n]
      PROVE  Asks(r, p, req[r].kind, req[r].roles, req[r].channel, req[r].seen)
  BY <1>1, <1>4, ZenonT(60) DEF Asks, Questions
<1>5. QED
  BY <1>2, <1>3, <1>4

LEMMA Begins ==
  ASSUME AccessAssumption, Types, NEW r \in Request, NEW q \in Questions,
         req' = [req EXCEPT ![r] = q]
  PROVE  Asks(r, q.pc, q.kind, q.roles, q.channel, q.seen)
BY DEF Types, Asks

LEMMA Named ==
  /\ {"idle", "check", "wait", "fetch", "fetchOwn", "publish", "guild", "answered", "failed",
      "dropped"} \subseteq Places
  /\ \A r : /\ Fail(r) <=> req' = [req EXCEPT ![r].pc = "failed"]
            /\ \A v : Use(r, v) <=> req' = [req EXCEPT ![r].pc = "guild", ![r].roles = v]
BY DEF Places, Fail, Use

(* The numbers the steps below compare. *)
LEMMA Known ==
  ASSUME AccessAssumption, Types
  PROVE  /\ roles \in Nat \ {0} /\ roles \in 0 .. MaxRoles
         /\ channel \in Nat \ {0} /\ channel \in 0 .. MaxChannel
         /\ newest \in Nat
         /\ perm.rev \in Nat /\ perm.entry.roles \in Nat /\ perm.entry.channel \in Nat
         /\ guild.entry \in 0 .. MaxRoles /\ guild.entry \in Nat /\ guild.rev \in Nat
         /\ \A e \in Event : e[2] \in Nat
         /\ \A r \in Request :
              /\ req[r].pc \in Places /\ req[r].roles \in 0 .. MaxRoles /\ req[r].roles \in Nat
              /\ req[r].channel \in 0 .. MaxChannel /\ req[r].channel \in Nat /\ req[r].seen \in Nat
              /\ handled[r].channel \in Nat /\ handled[r].began \in Nat /\ req[r].left \in 0 .. MaxRetries
<1>1. /\ roles \in Nat \ {0} /\ roles \in 0 .. MaxRoles
      /\ channel \in Nat \ {0} /\ channel \in 0 .. MaxChannel
      /\ newest \in Nat /\ \A e \in Event : e[2] \in Nat
  BY Bounds DEF Types
<1>2. perm.rev \in Nat /\ perm.entry.roles \in Nat /\ perm.entry.channel \in Nat
  BY Bounds DEF Types, Decisions
<1>3. guild.entry \in 0 .. MaxRoles /\ guild.entry \in Nat /\ guild.rev \in Nat
  BY Bounds DEF Types, Guilds
<1>4. ASSUME NEW r \in Request
      PROVE  /\ req[r].pc \in Places /\ req[r].roles \in 0 .. MaxRoles /\ req[r].roles \in Nat
             /\ req[r].channel \in 0 .. MaxChannel /\ req[r].channel \in Nat /\ req[r].seen \in Nat
             /\ handled[r].channel \in Nat /\ handled[r].began \in Nat /\ req[r].left \in 0 .. MaxRetries
  <2>1. req[r] \in Questions /\ handled[r] \in [roles : Nat, channel : Nat, began : Nat]
    BY DEF Types
  <2>2. QED
    BY <2>1, Bounds DEF Questions
<1>5. QED
  BY <1>1, <1>2, <1>3, <1>4

LEMMA Moves2 ==
  ASSUME Types, NEW r \in Request
  PROVE  /\ \A c \in 0 .. MaxChannel :
              req' = [req EXCEPT ![r].channel = c] =>
                Asks(r, req[r].pc, req[r].kind, req[r].roles, c, req[r].seen)
         /\ req' = [req EXCEPT ![r].bad = TRUE] =>
              Asks(r, req[r].pc, req[r].kind, req[r].roles, req[r].channel, req[r].seen)
<1>1. req \in [Request -> Questions]
  BY DEF Types
<1>2. ASSUME NEW c \in 0 .. MaxChannel, req' = [req EXCEPT ![r].channel = c]
      PROVE  Asks(r, req[r].pc, req[r].kind, req[r].roles, c, req[r].seen)
  BY <1>1, <1>2 DEF Asks, Questions
<1>3. ASSUME req' = [req EXCEPT ![r].bad = TRUE]
      PROVE  Asks(r, req[r].pc, req[r].kind, req[r].roles, req[r].channel, req[r].seen)
  BY <1>1, <1>3, ZenonT(60) DEF Asks, Questions
<1>4. QED
  BY <1>2, <1>3

(* What a question begins as. *)
Question(p, k, ro, ch, se, le) ==
    [pc |-> p, kind |-> k, roles |-> ro, channel |-> ch, bad |-> FALSE, seen |-> se,
     seenGuild |-> 0, left |-> le]

LEMMA Fresh ==
  ASSUME NEW p \in Places, NEW k \in {"channel", "admin", "strict"},
         NEW ro \in 0 .. MaxRoles, NEW ch \in 0 .. MaxChannel, NEW se \in Nat,
         NEW le \in 0 .. MaxRetries, AccessAssumption, Types, NEW r \in Request,
         req' = [req EXCEPT ![r] = Question(p, k, ro, ch, se, le)]
  PROVE  Asks(r, p, k, ro, ch, se)
<1>1. Question(p, k, ro, ch, se, le) \in Questions
  BY DEF Question, Questions
<1>2. QED
  BY <1>1, Begins DEF Question

LEMMA NewQuestion ==
  ASSUME AccessAssumption, Types, NEW r \in Request, NEW p \in Places,
         NEW k \in {"channel", "admin", "strict"}
  PROVE  /\ \A se \in Nat :
              req' = [req EXCEPT ![r] =
                        [Idle EXCEPT !.pc = p, !.kind = k, !.seen = se, !.left = MaxRetries]] =>
                Asks(r, p, k, 0, 0, se)
         /\ \A ro \in 0 .. MaxRoles, ch \in 0 .. MaxChannel :
              req' = [req EXCEPT ![r] =
                        [Idle EXCEPT !.pc = p, !.kind = k, !.roles = ro, !.channel = ch]] =>
                Asks(r, p, k, ro, ch, 0)
<1>1. /\ Idle \in Questions /\ Idle.roles = 0 /\ Idle.channel = 0 /\ Idle.seen = 0
      /\ MaxRetries \in 0 .. MaxRetries
  BY Bounds DEF Idle, Questions, Places
<1>2. ASSUME NEW se \in Nat,
             req' = [req EXCEPT ![r] =
                       [Idle EXCEPT !.pc = p, !.kind = k, !.seen = se, !.left = MaxRetries]]
      PROVE  Asks(r, p, k, 0, 0, se)
  <2> DEFINE q == [Idle EXCEPT !.pc = p, !.kind = k, !.seen = se, !.left = MaxRetries]
  <2>1. /\ q \in Questions /\ q.pc = p /\ q.kind = k /\ q.roles = 0 /\ q.channel = 0
        /\ q.seen = se
    BY <1>1 DEF Questions
  <2>2. req' = [req EXCEPT ![r] = q]
    BY <1>2
  <2> HIDE DEF q
  <2>3. QED
    BY <2>1, <2>2, Begins
<1>3. ASSUME NEW ro \in 0 .. MaxRoles, NEW ch \in 0 .. MaxChannel,
             req' = [req EXCEPT ![r] =
                       [Idle EXCEPT !.pc = p, !.kind = k, !.roles = ro, !.channel = ch]]
      PROVE  Asks(r, p, k, ro, ch, 0)
  <2> DEFINE q == [Idle EXCEPT !.pc = p, !.kind = k, !.roles = ro, !.channel = ch]
  <2>1. /\ q \in Questions /\ q.pc = p /\ q.kind = k /\ q.roles = ro /\ q.channel = ch
        /\ q.seen = 0
    BY <1>1 DEF Questions
  <2>2. req' = [req EXCEPT ![r] = q]
    BY <1>3
  <2> HIDE DEF q
  <2>3. QED
    BY <2>1, <2>2, Begins
<1>4. QED
  BY <1>2, <1>3

(***************************************************************************)
(* Discord and the gateway.                                                *)
(***************************************************************************)

(* Nothing is announced beyond the new version. *)
LEMMA RolesChange ==
  ASSUME AccessAssumption, AccessInv, ChangeRoles
  PROVE  AccessInv'
<1>0. Types
  BY DEF AccessInv
<1>1. /\ roles' = roles + 1 /\ roles' \in 1 .. MaxRoles
      /\ \A e \in Event : events'[e] # events[e] => e[1] = "roles" /\ e[2] = roles + 1 /\ events'[e] = "sent"
      /\ events' \in [Event -> {"none", "sent", "half", "done"}]
      /\ <<"roles", roles + 1>> \in Event
      /\ UNCHANGED <<channel, perm, guild, req, handled, newest>>
  BY Bounds DEF ChangeRoles, AccessInv, Types
<1>2. Types'
  BY <1>1 DEF AccessInv, Types, Asks, GuildIs, PermIs
<1>3. (Announced /\ EntryWhole)'
  BY <1>0, <1>1, Known DEF AccessInv, PermIs, Announced, EntryWhole, ClearedSince
<1>4. FetchedSince'
  BY <1>0, <1>1, Known DEF AccessInv, Asks, PermIs, FetchedSince, ClearedSince
<1>5. (DecidedFrom /\ StrictAlone)'
  BY <1>0, <1>1, Known DEF AccessInv, Asks, DecidedFrom, StrictAlone
<1>6. GuildFresh'
  BY <1>0, <1>1, Known DEF AccessInv, Asks, GuildIs, GuildFresh, InvalidatedSince
<1>7. QED
  BY <1>2, <1>3, <1>4, <1>5, <1>6 DEF AccessInv

LEMMA ChannelChanges ==
  ASSUME AccessAssumption, AccessInv, ChangeChannel
  PROVE  AccessInv'
<1>0. Types
  BY DEF AccessInv
<1>1. /\ channel' = channel + 1 /\ channel' \in 1 .. MaxChannel
      /\ \A e \in Event : events'[e] # events[e] => e[1] = "channel" /\ e[2] = channel + 1 /\ events'[e] = "sent"
      /\ events' \in [Event -> {"none", "sent", "half", "done"}]
      /\ <<"channel", channel + 1>> \in Event
      /\ UNCHANGED <<roles, perm, guild, req, handled, newest>>
  BY Bounds DEF ChangeChannel, AccessInv, Types
<1>2. Types'
  BY <1>1 DEF AccessInv, Types, Asks, GuildIs, PermIs
<1>3. (Announced /\ EntryWhole)'
  BY <1>0, <1>1, Known DEF AccessInv, PermIs, Announced, EntryWhole, ClearedSince
<1>4. FetchedSince'
  BY <1>0, <1>1, Known DEF AccessInv, Asks, PermIs, FetchedSince, ClearedSince
<1>5. (DecidedFrom /\ StrictAlone)'
  BY <1>0, <1>1, Known DEF AccessInv, Asks, DecidedFrom, StrictAlone
<1>6. GuildFresh'
  BY <1>0, <1>1, Known DEF AccessInv, Asks, GuildIs, GuildFresh, InvalidatedSince
<1>7. QED
  BY <1>2, <1>3, <1>4, <1>5, <1>6 DEF AccessInv

(* The revision moves on, and whoever saw the old one will not store. *)
LEMMA PermissionsCleared ==
  ASSUME AccessAssumption, AccessInv, NEW e \in Event, ClearPermissionCache(e)
  PROVE  AccessInv'
<1>0. Types
  BY DEF AccessInv
<1>1. /\ PermIs(0, 0, perm.rev + 1)
      /\ \A f \in Event : events'[f] = IF f = e THEN "half" ELSE events[f]
      /\ events[e] = "sent"
      /\ events' \in [Event -> {"none", "sent", "half", "done"}]
      /\ UNCHANGED <<roles, channel, guild, req, handled, newest>>
  BY Bounds DEF ClearPermissionCache, discord, AccessInv, Types, PermIs, Decisions, NoEntry
<1>2. Types'
  BY <1>1 DEF AccessInv, Types, Asks, GuildIs, PermIs
<1>3. (Announced /\ EntryWhole)'
  BY <1>0, <1>1, Known DEF AccessInv, PermIs, Announced, EntryWhole, ClearedSince
<1>4. FetchedSince'
  BY <1>0, <1>1, Known DEF AccessInv, Asks, PermIs, FetchedSince, ClearedSince
<1>5. (DecidedFrom /\ StrictAlone)'
  BY <1>0, <1>1, Known DEF AccessInv, Asks, DecidedFrom, StrictAlone
<1>6. GuildFresh'
  BY <1>0, <1>1, Known DEF AccessInv, Asks, GuildIs, GuildFresh, InvalidatedSince
<1>7. QED
  BY <1>2, <1>3, <1>4, <1>5, <1>6 DEF AccessInv

(* The refresh under way is no longer the current one. *)
LEMMA GuildInvalidated ==
  ASSUME AccessAssumption, AccessInv, NEW e \in Event, InvalidateGuildCache(e)
  PROVE  AccessInv'
<1>0. Types
  BY DEF AccessInv
<1>1. /\ GuildIs(0, None)
      /\ \A f \in Event : events'[f] = IF f = e THEN "done" ELSE events[f]
      /\ events[e] = "half"
      /\ events' \in [Event -> {"none", "sent", "half", "done"}]
      /\ None \notin Request
      /\ UNCHANGED <<roles, channel, perm, req, handled, newest>>
  BY Bounds DEF InvalidateGuildCache, discord, AccessInv, Types, GuildIs, Guilds, NoRefresh
<1>2. Types'
  BY <1>1 DEF AccessInv, Types, Asks, GuildIs, PermIs
<1>3. (Announced /\ EntryWhole)'
  BY <1>0, <1>1, Known DEF AccessInv, PermIs, Announced, EntryWhole, ClearedSince
<1>4. FetchedSince'
  BY <1>0, <1>1, Known DEF AccessInv, Asks, PermIs, FetchedSince, ClearedSince
<1>5. (DecidedFrom /\ StrictAlone)'
  BY <1>0, <1>1, Known DEF AccessInv, Asks, DecidedFrom, StrictAlone
<1>6. GuildFresh'
  BY <1>0, <1>1, Known DEF AccessInv, Asks, GuildIs, GuildFresh, InvalidatedSince
<1>7. QED
  BY <1>2, <1>3, <1>4, <1>5, <1>6 DEF AccessInv

LEMMA UserInvalidated ==
  ASSUME AccessAssumption, AccessInv, InvalidateForUser
  PROVE  AccessInv'
<1>0. Types
  BY DEF AccessInv
<1>1. /\ PermIs(0, 0, perm.rev + 1)
      /\ UNCHANGED <<roles, channel, events, guild, req, handled, newest>>
  BY Bounds DEF InvalidateForUser, discord, AccessInv, Types, PermIs, Decisions, NoEntry
<1>2. Types'
  BY <1>1 DEF AccessInv, Types, Asks, GuildIs, PermIs
<1>3. (Announced /\ EntryWhole)'
  BY <1>0, <1>1, Known DEF AccessInv, PermIs, Announced, EntryWhole, ClearedSince
<1>4. FetchedSince'
  BY <1>0, <1>1, Known DEF AccessInv, Asks, PermIs, FetchedSince, ClearedSince
<1>5. (DecidedFrom /\ StrictAlone)'
  BY <1>0, <1>1, Known DEF AccessInv, Asks, DecidedFrom, StrictAlone
<1>6. GuildFresh'
  BY <1>0, <1>1, Known DEF AccessInv, Asks, GuildIs, GuildFresh, InvalidatedSince
<1>7. QED
  BY <1>2, <1>3, <1>4, <1>5, <1>6 DEF AccessInv

LEMMA EntriesExpire ==
  ASSUME AccessAssumption, AccessInv, Expire
  PROVE  AccessInv'
<1>0. Types
  BY DEF AccessInv
<1>1. /\ \/ perm' = perm \/ PermIs(0, 0, perm.rev) \/ PermIs(perm.entry.roles, perm.entry.channel, perm.rev)
      /\ \/ guild' = guild \/ GuildIs(0, guild.refresh.leader) \/ GuildIs(guild.entry, guild.refresh.leader)
      /\ UNCHANGED <<roles, channel, events, req, handled, newest>>
  PROOF
  <2>1. perm \in Decisions /\ guild \in Guilds
    BY <1>0 DEF Types
  <2>2. ASSUME perm' = [perm EXCEPT !.entry = NoEntry] PROVE PermIs(0, 0, perm.rev)
    BY <2>1, <2>2, Bounds DEF PermIs, Decisions, NoEntry
  <2>3. ASSUME perm' = [perm EXCEPT !.admin = 0]
        PROVE  PermIs(perm.entry.roles, perm.entry.channel, perm.rev)
    BY <2>1, <2>3, Bounds DEF PermIs, Decisions
  <2>4. ASSUME guild' = [guild EXCEPT !.entry = 0] PROVE GuildIs(0, guild.refresh.leader)
    BY <2>1, <2>4, Bounds DEF GuildIs, Guilds
  <2>5. ASSUME guild' = [guild EXCEPT !.failure = FALSE]
        PROVE  GuildIs(guild.entry, guild.refresh.leader)
    BY <2>1, <2>5 DEF GuildIs, Guilds
  <2>6. QED
    BY <2>2, <2>3, <2>4, <2>5 DEF Expire, discord
<1>2. Types'
  BY <1>1 DEF AccessInv, Types, Asks, GuildIs, PermIs
<1>3. (Announced /\ EntryWhole)'
  BY <1>0, <1>1, Known DEF AccessInv, PermIs, Announced, EntryWhole, ClearedSince
<1>4. FetchedSince'
  BY <1>0, <1>1, Known DEF AccessInv, Asks, PermIs, FetchedSince, ClearedSince
<1>5. (DecidedFrom /\ StrictAlone)'
  BY <1>0, <1>1, Known DEF AccessInv, Asks, DecidedFrom, StrictAlone
<1>6. GuildFresh'
  BY <1>0, <1>1, Known DEF AccessInv, Asks, GuildIs, GuildFresh, InvalidatedSince
<1>7. QED
  BY <1>2, <1>3, <1>4, <1>5, <1>6 DEF AccessInv

LEMMA RefreshGetsOld ==
  ASSUME AccessAssumption, AccessInv, RefreshAges
  PROVE  AccessInv'
<1>0. Types
  BY DEF AccessInv
<1>1. /\ GuildIs(guild.entry, guild.refresh.leader)
      /\ UNCHANGED <<roles, channel, events, perm, req, handled, newest>>
  BY Bounds DEF RefreshAges, discord, AccessInv, Types, GuildIs, Guilds
<1>2. Types'
  BY <1>1 DEF AccessInv, Types, Asks, GuildIs, PermIs
<1>3. (Announced /\ EntryWhole)'
  BY <1>0, <1>1, Known DEF AccessInv, PermIs, Announced, EntryWhole, ClearedSince
<1>4. FetchedSince'
  BY <1>0, <1>1, Known DEF AccessInv, Asks, PermIs, FetchedSince, ClearedSince
<1>5. (DecidedFrom /\ StrictAlone)'
  BY <1>0, <1>1, Known DEF AccessInv, Asks, DecidedFrom, StrictAlone
<1>6. GuildFresh'
  BY <1>0, <1>1, Known DEF AccessInv, Asks, GuildIs, GuildFresh, InvalidatedSince
<1>7. QED
  BY <1>2, <1>3, <1>4, <1>5, <1>6 DEF AccessInv

(***************************************************************************)
(* A request.                                                              *)
(***************************************************************************)

LEMMA RequestWaited ==
  ASSUME AccessAssumption, AccessInv, NEW r \in Request, Waited(r)
  PROVE  AccessInv'
<1>0. Types
  BY DEF AccessInv
<1>1. /\ Asks(r, "check", req[r].kind, req[r].roles, req[r].channel, req[r].seen)
      /\ req[r].pc = "wait"
      /\ UNCHANGED <<roles, channel, events, perm, guild, handled, newest>>
  BY Moves, Named DEF Waited, discord, AccessInv
<1>2. Types'
  BY <1>1 DEF AccessInv, Types, Asks, GuildIs, PermIs
<1>3. (Announced /\ EntryWhole)'
  BY <1>0, <1>1, Known DEF AccessInv, PermIs, Announced, EntryWhole, ClearedSince
<1>4. FetchedSince'
  BY <1>0, <1>1, Known DEF AccessInv, Asks, PermIs, FetchedSince, ClearedSince
<1>5. (DecidedFrom /\ StrictAlone)'
  BY <1>0, <1>1, Known DEF AccessInv, Asks, DecidedFrom, StrictAlone
<1>6. GuildFresh'
  BY <1>0, <1>1, Known DEF AccessInv, Asks, GuildIs, GuildFresh, InvalidatedSince
<1>7. QED
  BY <1>2, <1>3, <1>4, <1>5, <1>6 DEF AccessInv

LEMMA RequestDropped ==
  ASSUME AccessAssumption, AccessInv, NEW r \in Request, Drop(r)
  PROVE  AccessInv'
<1>0. Types
  BY DEF AccessInv
<1>1. /\ Asks(r, "dropped", req[r].kind, req[r].roles, req[r].channel, req[r].seen)
      /\ UNCHANGED <<roles, channel, events, perm, guild, handled, newest>>
  BY Moves, Named DEF Drop, discord, AccessInv
<1>2. Types'
  BY <1>1 DEF AccessInv, Types, Asks, GuildIs, PermIs
<1>3. (Announced /\ EntryWhole)'
  BY <1>0, <1>1, Known DEF AccessInv, PermIs, Announced, EntryWhole, ClearedSince
<1>4. FetchedSince'
  BY <1>0, <1>1, Known DEF AccessInv, Asks, PermIs, FetchedSince, ClearedSince
<1>5. (DecidedFrom /\ StrictAlone)'
  BY <1>0, <1>1, Known DEF AccessInv, Asks, DecidedFrom, StrictAlone
<1>6. GuildFresh'
  BY <1>0, <1>1, Known DEF AccessInv, Asks, GuildIs, GuildFresh, InvalidatedSince
<1>7. QED
  BY <1>2, <1>3, <1>4, <1>5, <1>6 DEF AccessInv

LEMMA UserAsksAgain ==
  ASSUME AccessAssumption, AccessInv, NEW r \in Request, Again(r)
  PROVE  AccessInv'
<1>0. Types
  BY DEF AccessInv
<1>1. /\ Asks(r, "idle", "channel", 0, 0, 0)
      /\ UNCHANGED <<roles, channel, events, perm, guild, handled, newest>>
  PROOF
  <2>1. Idle = Question("idle", "channel", 0, 0, 0, 0)
    BY DEF Idle, Question
  <2>2. req' = [req EXCEPT ![r] = Question("idle", "channel", 0, 0, 0, 0)]
    BY <2>1 DEF Again
  <2>3. /\ "idle" \in Places /\ 0 \in 0 .. MaxRoles /\ 0 \in 0 .. MaxChannel
        /\ 0 \in 0 .. MaxRetries /\ 0 \in Nat
    BY Bounds, Named
  <2>4. Asks(r, "idle", "channel", 0, 0, 0)
    BY <1>0, <2>2, <2>3, Fresh
  <2>5. QED
    BY <2>4 DEF Again, discord
<1>2. Types'
  BY <1>1 DEF AccessInv, Types, Asks, GuildIs, PermIs
<1>3. (Announced /\ EntryWhole)'
  BY <1>0, <1>1, Known DEF AccessInv, PermIs, Announced, EntryWhole, ClearedSince
<1>4. FetchedSince'
  BY <1>0, <1>1, Known DEF AccessInv, Asks, PermIs, FetchedSince, ClearedSince
<1>5. (DecidedFrom /\ StrictAlone)'
  BY <1>0, <1>1, Known DEF AccessInv, Asks, DecidedFrom, StrictAlone
<1>6. GuildFresh'
  BY <1>0, <1>1, Known DEF AccessInv, Asks, GuildIs, GuildFresh, InvalidatedSince
<1>7. QED
  BY <1>2, <1>3, <1>4, <1>5, <1>6 DEF AccessInv

(* The entry that is used is not newer than the roles; a new leader has      *)
(* fetched nothing yet.                                                    *)
LEMMA GuildAsked ==
  ASSUME AccessAssumption, AccessInv, NEW r \in Request, GuildInfo(r)
  PROVE  AccessInv'
<1>0. Types
  BY DEF AccessInv
<1>1. /\ req[r].pc = "check"
      /\ \/ /\ guild.entry # 0 /\ guild' = guild
           /\ Asks(r, "guild", req[r].kind, guild.entry, req[r].channel, req[r].seen)
        \/ /\ guild' = guild
           /\ \E p \in {"failed", "wait"} :
                Asks(r, p, req[r].kind, req[r].roles, req[r].channel, req[r].seen)
        \/ /\ GuildIs(guild.entry, r)
           /\ Asks(r, "fetch", req[r].kind, req[r].roles, req[r].channel, req[r].seen)
      /\ UNCHANGED <<roles, channel, events, perm, handled, newest>>
  PROOF
  <2>1. req[r].pc = "check" /\ UNCHANGED <<roles, channel, events, perm, handled, newest>>
    BY DEF GuildInfo, discord
  <2>2. ASSUME guild' = [guild EXCEPT !.refresh = [leader |-> r, old |-> FALSE]]
        PROVE  GuildIs(guild.entry, r)
    BY <1>0, <2>2 DEF Types, Guilds, GuildIs
  <2>3. QED
    BY <1>0, <2>1, <2>2, Known, Moves, Named DEF GuildInfo, TakeCached, Cached
<1>2. Types'
  BY <1>1 DEF AccessInv, Types, Asks, GuildIs, PermIs
<1>3. (Announced /\ EntryWhole)'
  BY <1>0, <1>1, Known DEF AccessInv, PermIs, Announced, EntryWhole, ClearedSince
<1>4. FetchedSince'
  BY <1>0, <1>1, Known DEF AccessInv, Asks, PermIs, FetchedSince, ClearedSince
<1>5. (DecidedFrom /\ StrictAlone)'
  BY <1>0, <1>1, Known DEF AccessInv, Asks, DecidedFrom, StrictAlone
<1>6. GuildFresh'
  BY <1>0, <1>1, Known DEF AccessInv, Asks, GuildIs, GuildFresh, InvalidatedSince
<1>7. QED
  BY <1>2, <1>3, <1>4, <1>5, <1>6 DEF AccessInv

(* What a leader fetches is as new as everything that was announced. *)
LEMMA GuildFetched ==
  ASSUME AccessAssumption, AccessInv, NEW r \in Request, FetchGuildInfo(r)
  PROVE  AccessInv'
<1>0. Types
  BY DEF AccessInv
<1>1. /\ \/ /\ req[r].pc = "fetch"
           /\ \E v \in {0, roles} : Asks(r, "publish", req[r].kind, v, req[r].channel, req[r].seen)
        \/ /\ req[r].pc = "fetchOwn"
           /\ \/ Asks(r, "guild", req[r].kind, roles, req[r].channel, req[r].seen)
              \/ Asks(r, "failed", req[r].kind, 0, req[r].channel, req[r].seen)
      /\ UNCHANGED <<roles, channel, events, perm, guild, handled, newest>>
  PROOF
  <2>1. 0 \in 0 .. MaxRoles /\ roles \in 0 .. MaxRoles
    BY <1>0, Known, Bounds
  <2>2. CASE req[r].pc = "fetch"
    BY <1>0, <2>1, <2>2, Moves, Named DEF FetchGuildInfo, discord
  <2>3. CASE req[r].pc = "fetchOwn"
    BY <1>0, <2>1, <2>3, Moves, Named DEF FetchGuildInfo, discord
  <2>4. QED
    BY <2>2, <2>3 DEF FetchGuildInfo
<1>2. Types'
  BY <1>1 DEF AccessInv, Types, Asks, GuildIs, PermIs
<1>3. (Announced /\ EntryWhole)'
  BY <1>0, <1>1, Known DEF AccessInv, PermIs, Announced, EntryWhole, ClearedSince
<1>4. FetchedSince'
  BY <1>0, <1>1, Known DEF AccessInv, Asks, PermIs, FetchedSince, ClearedSince
<1>5. (DecidedFrom /\ StrictAlone)'
  BY <1>0, <1>1, Known DEF AccessInv, Asks, DecidedFrom, StrictAlone
<1>6. GuildFresh'
  BY <1>0, <1>1, Known DEF AccessInv, Asks, GuildFresh, InvalidatedSince, Announced
<1>7. QED
  BY <1>2, <1>3, <1>4, <1>5, <1>6 DEF AccessInv

(* Only the current leader publishes, and what it fetched was not overtaken. *)
LEMMA Publishes ==
  ASSUME AccessAssumption, AccessInv, NEW r \in Request, PublishGuildInfo(r)
  PROVE  /\ req[r].pc = "publish"
         /\ \/ /\ guild' = guild /\ newest' = newest
              /\ \E p \in {"check", "failed"} :
                   Asks(r, p, req[r].kind, req[r].roles, req[r].channel, req[r].seen)
           \/ /\ GuildIs(guild.entry, None) /\ newest' = newest
              /\ \/ Asks(r, "failed", req[r].kind, req[r].roles, req[r].channel, req[r].seen)
                 \/ /\ guild.entry # 0
                    /\ Asks(r, "guild", req[r].kind, guild.entry, req[r].channel, req[r].seen)
           \/ /\ guild.refresh.leader = r /\ req[r].roles # 0 /\ GuildIs(req[r].roles, None)
              /\ newest' = IF req[r].roles > newest THEN req[r].roles ELSE newest
              /\ Asks(r, "guild", req[r].kind, req[r].roles, req[r].channel, req[r].seen)
         /\ newest' \in 0 .. MaxRoles /\ None \notin Request
         /\ UNCHANGED <<roles, channel, events, perm, handled>>
<1>0. Types
  BY DEF AccessInv
<1> DEFINE kept == [guild EXCEPT !.refresh = NoRefresh]
<1>1. req[r].pc = "publish" /\ UNCHANGED <<roles, channel, events, perm, handled>>
  BY DEF PublishGuildInfo, discord
<1>2. /\ req[r].roles \in 0 .. MaxRoles /\ guild.entry \in 0 .. MaxRoles
      /\ newest \in 0 .. MaxRoles /\ guild.entry <= newest /\ guild \in Guilds
      /\ None \notin Request
  BY <1>0, Known, Bounds DEF AccessInv, GuildFresh, Types
<1>3. ASSUME guild' = kept PROVE GuildIs(guild.entry, None)
  BY <1>2, <1>3 DEF GuildIs, Guilds, NoRefresh
<1>4. ASSUME guild' = [kept EXCEPT !.failure = TRUE] PROVE GuildIs(guild.entry, None)
  BY <1>2, <1>4 DEF GuildIs, Guilds, NoRefresh
<1>5. ASSUME guild' = [kept EXCEPT !.entry = req[r].roles] PROVE GuildIs(req[r].roles, None)
  BY <1>2, <1>5 DEF GuildIs, Guilds, NoRefresh
<1> HIDE DEF kept
<1>6. TakeCached(r) =>
        \/ Asks(r, "failed", req[r].kind, req[r].roles, req[r].channel, req[r].seen)
        \/ /\ guild.entry # 0
           /\ Asks(r, "guild", req[r].kind, guild.entry, req[r].channel, req[r].seen)
  BY <1>0, <1>2, Moves, Named DEF TakeCached
<1>7. Fail(r) => Asks(r, "failed", req[r].kind, req[r].roles, req[r].channel, req[r].seen)
  BY <1>0, Moves, Named
<1>8. CASE ~IsCurrentRefresh(r)
  BY <1>0, <1>1, <1>2, <1>8, Moves, Named DEF PublishGuildInfo
<1>9. CASE IsCurrentRefresh(r) /\ (Cached \/ ~Unchanged(r))
  <2>1. guild' = kept
    BY <1>9 DEF PublishGuildInfo, kept
  <2>2. newest' = newest
    BY <1>2, <1>3, <1>9, <2>1 DEF PublishGuildInfo, GuildIs
  <2>3. TakeCached(r) \/ Fail(r)
    BY <1>9 DEF PublishGuildInfo
  <2>4. QED
    BY <1>1, <1>2, <1>3, <1>6, <1>7, <2>1, <2>2, <2>3
<1>10. CASE IsCurrentRefresh(r) /\ ~Cached /\ Unchanged(r) /\ req[r].roles # 0
  <2>1. /\ guild' = [kept EXCEPT !.entry = req[r].roles] /\ Use(r, req[r].roles)
        /\ newest' = IF guild'.entry > newest THEN guild'.entry ELSE newest
    BY <1>10 DEF PublishGuildInfo, kept
  <2>2. Asks(r, "guild", req[r].kind, req[r].roles, req[r].channel, req[r].seen)
    BY <1>0, <1>2, <2>1, Moves, Named
  <2>3. guild'.entry = req[r].roles
    BY <1>5, <2>1 DEF GuildIs
  <2>4. newest' \in 0 .. MaxRoles
    BY <1>2, <2>1, <2>3
  <2>5. QED
    BY <1>1, <1>2, <1>5, <1>10, <2>1, <2>2, <2>3, <2>4 DEF IsCurrentRefresh
<1>11. CASE IsCurrentRefresh(r) /\ ~Cached /\ Unchanged(r) /\ req[r].roles = 0
  <2>1. guild' = [kept EXCEPT !.failure = TRUE] /\ Fail(r) /\ newest' = newest
    BY <1>11 DEF PublishGuildInfo, kept
  <2>2. QED
    BY <1>1, <1>2, <1>4, <1>7, <2>1
<1>12. QED
  BY <1>8, <1>9, <1>10, <1>11

LEMMA GuildPublished ==
  ASSUME AccessAssumption, AccessInv, NEW r \in Request, PublishGuildInfo(r)
  PROVE  AccessInv'
<1>0. Types
  BY DEF AccessInv
<1>1. /\ req[r].pc = "publish"
      /\ \/ /\ guild' = guild /\ newest' = newest
           /\ \E p \in {"check", "failed"} :
                Asks(r, p, req[r].kind, req[r].roles, req[r].channel, req[r].seen)
        \/ /\ GuildIs(guild.entry, None) /\ newest' = newest
           /\ \/ Asks(r, "failed", req[r].kind, req[r].roles, req[r].channel, req[r].seen)
              \/ /\ guild.entry # 0
                 /\ Asks(r, "guild", req[r].kind, guild.entry, req[r].channel, req[r].seen)
        \/ /\ guild.refresh.leader = r /\ req[r].roles # 0 /\ GuildIs(req[r].roles, None)
           /\ newest' = IF req[r].roles > newest THEN req[r].roles ELSE newest
           /\ Asks(r, "guild", req[r].kind, req[r].roles, req[r].channel, req[r].seen)
      /\ newest' \in 0 .. MaxRoles /\ None \notin Request
      /\ UNCHANGED <<roles, channel, events, perm, handled>>
  BY Publishes
<1>2. Types'
  BY <1>1 DEF AccessInv, Types, Asks, GuildIs, PermIs
<1>3. (Announced /\ EntryWhole)'
  BY <1>0, <1>1, Known DEF AccessInv, PermIs, Announced, EntryWhole, ClearedSince
<1>4. FetchedSince'
  BY <1>0, <1>1, Known DEF AccessInv, Asks, PermIs, FetchedSince, ClearedSince
<1>5. (DecidedFrom /\ StrictAlone)'
  BY <1>0, <1>1, Known DEF AccessInv, Asks, DecidedFrom, StrictAlone
<1>6. GuildFresh'
  BY <1>0, <1>1, Known DEF AccessInv, Asks, GuildIs, GuildFresh, InvalidatedSince
<1>7. QED
  BY <1>2, <1>3, <1>4, <1>5, <1>6 DEF AccessInv

LEMMA ChannelFetched ==
  ASSUME AccessAssumption, AccessInv, NEW r \in Request, FetchChannel(r)
  PROVE  AccessInv'
<1>0. Types
  BY DEF AccessInv
<1>1. /\ \E c \in {req[r].channel, channel} : Asks(r, req[r].pc, req[r].kind, req[r].roles, c, req[r].seen)
      /\ UNCHANGED <<roles, channel, events, perm, guild, handled, newest>>
  BY <1>0, Known, Moves2 DEF FetchChannel, discord
<1>2. Types'
  BY <1>1 DEF AccessInv, Types, Asks, GuildIs, PermIs
<1>3. (Announced /\ EntryWhole)'
  BY <1>0, <1>1, Known DEF AccessInv, PermIs, Announced, EntryWhole, ClearedSince
<1>4. FetchedSince'
  BY <1>0, <1>1, Known DEF AccessInv, Asks, FetchedSince, ClearedSince, Announced
<1>5. (DecidedFrom /\ StrictAlone)'
  BY <1>0, <1>1, Known DEF AccessInv, Asks, DecidedFrom, StrictAlone
<1>6. GuildFresh'
  BY <1>0, <1>1, Known DEF AccessInv, Asks, GuildIs, GuildFresh, InvalidatedSince
<1>7. QED
  BY <1>2, <1>3, <1>4, <1>5, <1>6 DEF AccessInv

(* A decision is stored while no event has come between. *)
LEMMA ChannelDecided ==
  ASSUME AccessAssumption, AccessInv, NEW r \in Request, CacheChannelPermission(r)
  PROVE  AccessInv'
<1>0. Types
  BY DEF AccessInv
<1>1. /\ req[r].pc = "guild" /\ req[r].kind = "channel"
      /\ \/ /\ perm' = perm
           /\ Asks(r, "failed", req[r].kind, req[r].roles, req[r].channel, req[r].seen)
        \/ /\ req[r].channel # 0 /\ req[r].seen = perm.rev
           /\ PermIs(req[r].roles, req[r].channel, perm.rev)
           /\ Asks(r, "answered", req[r].kind, req[r].roles, req[r].channel, req[r].seen)
        \/ /\ req[r].channel # 0 /\ perm' = perm
           /\ Asks(r, "answered", req[r].kind, req[r].roles, req[r].channel, req[r].seen)
        \/ /\ perm' = perm /\ Asks(r, "check", "channel", 0, 0, perm.rev)
      /\ UNCHANGED <<roles, channel, events, guild, handled, newest>>
  PROOF
  <2>1. /\ req[r].pc = "guild" /\ req[r].kind = "channel"
        /\ UNCHANGED <<roles, channel, events, guild, handled, newest>>
    BY DEF CacheChannelPermission, discord
  <2>2. CASE req[r].bad
    BY <1>0, <2>1, <2>2, Moves, Named DEF CacheChannelPermission
  <2>3. CASE ~req[r].bad /\ StillCurrent(r)
    <3>1. PermIs(req[r].roles, req[r].channel, perm.rev)
      <4>1. /\ perm' = [perm EXCEPT !.entry = [roles |-> req[r].roles, channel |-> req[r].channel]]
            /\ perm \in Decisions
        BY <1>0, <2>3 DEF CacheChannelPermission, Types
      <4>2. QED
        BY <1>0, <4>1, Known DEF Decisions, PermIs
    <3>2. Asks(r, "answered", req[r].kind, req[r].roles, req[r].channel, req[r].seen)
      BY <1>0, <2>3, Moves, Named DEF CacheChannelPermission
    <3>3. req[r].channel # 0 /\ req[r].seen = perm.rev
      BY <2>3 DEF CacheChannelPermission, StillCurrent
    <3>4. QED
      BY <2>1, <3>1, <3>2, <3>3
  <2>4. CASE ~req[r].bad /\ ~StillCurrent(r) /\ req[r].left = 0
    <3>1. req' = [req EXCEPT ![r].pc = "answered"]
      BY <2>4 DEF CacheChannelPermission
    <3>2. Asks(r, "answered", req[r].kind, req[r].roles, req[r].channel, req[r].seen)
      BY <1>0, <3>1, Moves, Named
    <3>3. QED
      BY <2>1, <2>4, <3>2 DEF CacheChannelPermission
  <2>5. CASE ~req[r].bad /\ ~StillCurrent(r) /\ req[r].left # 0
    <3>1. /\ req' = [req EXCEPT ![r] = Question("check", "channel", 0, 0, perm.rev, req[r].left - 1)]
          /\ perm' = perm
      BY <2>5 DEF CacheChannelPermission, Idle, Question
    <3>2. req[r].left - 1 \in 0 .. MaxRetries
      BY <1>0, <2>5, Bounds, Known
    <3>3. /\ "check" \in Places /\ 0 \in 0 .. MaxRoles /\ 0 \in 0 .. MaxChannel
          /\ perm.rev \in Nat
      BY <1>0, Bounds, Known, Named
    <3>4. Asks(r, "check", "channel", 0, 0, perm.rev)
      BY <1>0, <3>1, <3>2, <3>3, Fresh
    <3>5. QED
      BY <2>1, <3>1, <3>4
  <2>6. QED
    BY <2>2, <2>3, <2>4, <2>5
<1>2. Types'
  BY <1>1 DEF AccessInv, Types, Asks, GuildIs, PermIs
<1>3. (Announced /\ EntryWhole)'
  BY <1>0, <1>1, Known DEF AccessInv, PermIs, Announced, EntryWhole, ClearedSince, FetchedSince,
         DecidedFrom
<1>4. FetchedSince'
  BY <1>0, <1>1, Known DEF AccessInv, Asks, PermIs, FetchedSince, ClearedSince
<1>5. (DecidedFrom /\ StrictAlone)'
  BY <1>0, <1>1, Known DEF AccessInv, Asks, DecidedFrom, StrictAlone
<1>6. GuildFresh'
  BY <1>0, <1>1, Known DEF AccessInv, Asks, GuildIs, GuildFresh, InvalidatedSince
<1>7. QED
  BY <1>2, <1>3, <1>4, <1>5, <1>6 DEF AccessInv

LEMMA AdminDecided ==
  ASSUME AccessAssumption, AccessInv, NEW r \in Request, CacheGuildAdminPermission(r)
  PROVE  AccessInv'
<1>0. Types
  BY DEF AccessInv
<1>1. /\ req[r].pc = "guild" /\ req[r].kind # "channel"
      /\ PermIs(perm.entry.roles, perm.entry.channel, perm.rev)
      /\ \E p \in {"answered", "failed"} :
           Asks(r, p, req[r].kind, req[r].roles, req[r].channel, req[r].seen)
      /\ UNCHANGED <<roles, channel, events, guild, handled, newest>>
  BY Moves, Named DEF CacheGuildAdminPermission, discord, AccessInv, Types, PermIs, Decisions, Questions
<1>2. Types'
  BY <1>1 DEF AccessInv, Types, Asks, GuildIs, PermIs
<1>3. (Announced /\ EntryWhole)'
  BY <1>0, <1>1, Known DEF AccessInv, PermIs, Announced, EntryWhole, ClearedSince
<1>4. FetchedSince'
  BY <1>0, <1>1, Known DEF AccessInv, Asks, PermIs, FetchedSince, ClearedSince
<1>5. (DecidedFrom /\ StrictAlone)'
  BY <1>0, <1>1, Known DEF AccessInv, Asks, DecidedFrom, StrictAlone
<1>6. GuildFresh'
  BY <1>0, <1>1, Known DEF AccessInv, Asks, GuildIs, GuildFresh, InvalidatedSince
<1>7. QED
  BY <1>2, <1>3, <1>4, <1>5, <1>6 DEF AccessInv

(* A hit is a stored decision; otherwise the request notes the revision. *)
LEMMA RequestBegins ==
  ASSUME AccessAssumption, AccessInv, NEW r \in Request, NEW kind \in Kinds, Begin(r, kind)
  PROVE  AccessInv'
<1>0. Types
  BY DEF AccessInv
<1>1. /\ handled'[r].channel = HandledVersion("channel") /\ handled'[r].began = roles
      /\ \A q \in Request : q # r => handled'[q] = handled[q]
      /\ handled' \in [Request -> [roles : Nat, channel : Nat, began : Nat]]
      /\ \/ /\ kind = "channel" /\ perm.entry.channel # 0
           /\ Asks(r, "answered", kind, perm.entry.roles, perm.entry.channel, 0)
        \/ /\ kind = "admin" /\ perm.admin # 0
           /\ Asks(r, "answered", kind, perm.admin, 0, 0)
        \/ /\ kind # "strict" /\ Asks(r, "check", kind, 0, 0, perm.rev)
        \/ /\ kind = "strict" /\ Asks(r, "fetchOwn", kind, 0, 0, perm.rev)
      /\ UNCHANGED <<roles, channel, events, perm, guild, newest>>
  PROOF
  <2>1. /\ kind \in {"channel", "admin", "strict"} /\ 0 \in 0 .. MaxRoles /\ 0 \in 0 .. MaxChannel
        /\ MaxRetries \in 0 .. MaxRetries /\ 0 \in 0 .. MaxRetries
    BY Bounds DEF AccessAssumption, BoundAssumption
  <2>2. UNCHANGED <<roles, channel, events, perm, guild, newest>>
    BY DEF Begin, discord
  <2>3. HandledVersion("roles") \in Nat /\ HandledVersion("channel") \in Nat
    BY <1>0, HandledIs, Known
  <2>4. /\ handled'[r].channel = HandledVersion("channel") /\ handled'[r].began = roles
        /\ \A q \in Request : q # r => handled'[q] = handled[q]
        /\ handled' \in [Request -> [roles : Nat, channel : Nat, began : Nat]]
    BY <1>0, <2>3, Known DEF Begin, Types
  <2>5. /\ perm.entry.roles \in 0 .. MaxRoles /\ perm.entry.channel \in 0 .. MaxChannel
        /\ perm.admin \in 0 .. MaxRoles /\ perm.entry = [roles |-> perm.entry.roles, channel |-> perm.entry.channel]
    BY <1>0 DEF Types, Decisions
  <2>6. CASE Hit(kind) = NoEntry
    <3>1. req' = [req EXCEPT ![r] = [Idle EXCEPT !.pc = FirstStep(kind), !.kind = kind,
                                                 !.seen = perm.rev, !.left = MaxRetries]]
      BY <2>6 DEF Begin
    <3>2. FirstStep(kind) \in Places /\ perm.rev \in Nat
      BY <1>0, Known, Named DEF FirstStep
    <3>3. Asks(r, FirstStep(kind), kind, 0, 0, perm.rev)
      BY <1>0, <2>1, <3>1, <3>2, NewQuestion
    <3>4. QED
      BY <2>2, <2>4, <3>3 DEF FirstStep
  <2>7. CASE Hit(kind) # NoEntry
    <3>1. kind # "strict"
      BY <2>7 DEF Hit
    <3>2. CASE kind = "channel"
      <4>1. Hit(kind) = perm.entry
        BY <3>2 DEF Hit
      <4>2. perm.entry.channel # 0
        BY <2>5, <2>7, <4>1 DEF NoEntry, AccessInv, EntryWhole
      <4>3. req' = [req EXCEPT ![r] = [Idle EXCEPT !.pc = "answered", !.kind = kind,
                                         !.roles = perm.entry.roles, !.channel = perm.entry.channel]]
        BY <2>7, <4>1 DEF Begin
      <4>4. "answered" \in Places
        BY Named
      <4>5. Asks(r, "answered", kind, perm.entry.roles, perm.entry.channel, 0)
        BY <1>0, <2>1, <2>5, <4>3, <4>4, NewQuestion
      <4>6. QED
        BY <2>2, <2>4, <3>2, <4>2, <4>5
    <3>3. CASE kind = "admin"
      <4>1. Hit(kind) = [roles |-> perm.admin, channel |-> 0]
        BY <3>3 DEF Hit
      <4>2. perm.admin # 0
        BY <2>7, <4>1 DEF NoEntry
      <4>3. req' = [req EXCEPT ![r] = [Idle EXCEPT !.pc = "answered", !.kind = kind,
                                                   !.roles = perm.admin, !.channel = 0]]
        BY <2>7, <4>1 DEF Begin
      <4>4. "answered" \in Places
        BY Named
      <4>5. Asks(r, "answered", kind, perm.admin, 0, 0)
        BY <1>0, <2>1, <2>5, <4>3, <4>4, NewQuestion
      <4>6. QED
        BY <2>2, <2>4, <3>3, <4>2, <4>5
    <3>4. QED
      BY <2>1, <3>1, <3>2, <3>3
  <2>8. QED
    BY <2>6, <2>7
<1>2. Types'
  BY <1>1 DEF AccessInv, Types, Asks, GuildIs, PermIs
<1>3. (Announced /\ EntryWhole)'
  BY <1>0, <1>1, Known DEF AccessInv, PermIs, Announced, EntryWhole, ClearedSince
<1>4. FetchedSince'
  PROOF
  <2>1. HandledVersion("channel") \in Nat /\ HandledVersion("channel") <= channel
    BY <1>0, HandledIs, Known DEF AccessInv, Announced
  <2>2. perm.entry.channel # 0 => perm.entry.channel >= HandledVersion("channel")
    BY <1>0, HandledIs, Known DEF AccessInv, EntryWhole, ClearedSince
  <2>3. QED
    BY <1>0, <1>1, <2>1, <2>2, Known DEF AccessInv, Asks, FetchedSince, EntryWhole, ClearedSince
<1>5. (DecidedFrom /\ StrictAlone)'
  BY <1>0, <1>1, Known DEF AccessInv, Asks, DecidedFrom, StrictAlone, EntryWhole
<1>6. GuildFresh'
  BY <1>0, <1>1, Known DEF AccessInv, Asks, GuildIs, GuildFresh, InvalidatedSince
<1>7. QED
  BY <1>2, <1>3, <1>4, <1>5, <1>6 DEF AccessInv

(***************************************************************************)
(* The theorems.                                                           *)
(***************************************************************************)

LEMMA AccessInit ==
  ASSUME AccessAssumption, Init
  PROVE  AccessInv
<1>1. /\ perm \in Decisions /\ perm.entry.roles = 0 /\ perm.entry.channel = 0 /\ perm.rev = 0
  BY Bounds DEF Init, Decisions, NoEntry
<1>2. guild \in Guilds /\ guild.entry = 0 /\ guild.refresh.leader = None
  BY Bounds DEF Init, Guilds, NoRefresh
<1>3. /\ req \in [Request -> Questions]
      /\ \A r \in Request : /\ req[r].pc = "idle" /\ req[r].kind = "channel" /\ req[r].roles = 0
                            /\ req[r].channel = 0 /\ req[r].seen = 0
  <2>1. Idle = Question("idle", "channel", 0, 0, 0, 0)
    BY DEF Idle, Question
  <2>2. Idle \in Questions
    BY <2>1, Bounds DEF Question, Questions, Places
  <2>3. QED
    BY <2>1, <2>2 DEF Init, Question
<1>4. /\ roles = 1 /\ channel = 1 /\ newest = 0
      /\ \A e \in Event : events[e] = "none"
      /\ events \in [Event -> {"none", "sent", "half", "done"}]
      /\ handled \in [Request -> [roles : Nat, channel : Nat, began : Nat]]
      /\ \A r \in Request : handled[r].channel = 0 /\ handled[r].began = 0
  BY DEF Init
<1>5. Types
  BY <1>1, <1>2, <1>3, <1>4, Bounds DEF Types
<1>6. QED
  BY <1>1, <1>2, <1>3, <1>4, <1>5
  DEF AccessInv, Announced, EntryWhole, FetchedSince, DecidedFrom, GuildFresh, StrictAlone,
      ClearedSince, InvalidatedSince

LEMMA AccessStep ==
  ASSUME AccessAssumption, AccessInv, [Next]_vars
  PROVE  AccessInv'
<1>1. CASE UNCHANGED vars
  BY <1>1 DEF vars, AccessInv, Types, Announced, EntryWhole, FetchedSince, DecidedFrom, GuildFresh,
              StrictAlone, ClearedSince, InvalidatedSince
<1>2. QED
  BY <1>1, RolesChange, ChannelChanges, PermissionsCleared, GuildInvalidated, UserInvalidated,
     EntriesExpire, RefreshGetsOld, RequestWaited, RequestDropped, UserAsksAgain, GuildAsked,
     GuildFetched, GuildPublished, ChannelFetched, ChannelDecided, AdminDecided, RequestBegins
  DEF Next, Work

(* The caches, the requests that fill them and the events that clear them fit   *)
(* together in every state.                                                     *)
THEOREM AccessInvariant ==
  ASSUME AccessAssumption
  PROVE  Spec => []AccessInv
BY AccessInit, AccessStep, PTL DEF Spec

(* For any number of requests, changes, retries, dropped clients and failed     *)
(* fetches: the guild cache holds no roles older than an event that was         *)
(* handled, no decision about a channel outlives the event that may have        *)
(* revoked it, and a strict check is answered from roles that were current      *)
(* after it began.                                                              *)
THEOREM AccessIsFresh ==
  ASSUME AccessAssumption
  PROVE  Spec => [](AccessCurrent /\ StrictIsCurrent)
<1>1. ASSUME AccessInv PROVE AccessCurrent /\ StrictIsCurrent
  <2>0. Types
    BY <1>1 DEF AccessInv
  <2>1. TypeOK
    <3>1. /\ roles \in 1 .. MaxRoles /\ channel \in 1 .. MaxChannel
          /\ events \in [Event -> {"none", "sent", "half", "done"}]
      BY <2>0 DEF Types
    <3>2. /\ perm.entry \in [roles : 0 .. MaxRoles, channel : 0 .. MaxChannel]
          /\ (perm.entry.roles = 0) = (perm.entry.channel = 0)
      BY <1>1, <2>0 DEF Types, Decisions, AccessInv, EntryWhole
    <3>3. guild.entry \in 0 .. MaxRoles /\ guild.refresh.leader \in Request \cup {None}
      BY <2>0 DEF Types, Guilds
    <3>4. \A r \in Request : /\ req[r].pc \in Places /\ req[r].left \in 0 .. MaxRetries
                             /\ req[r].roles \in 0 .. MaxRoles
      BY <2>0, Known
    <3>5. \A r \in Request : req[r].pc \in {"guild", "answered"} => req[r].roles \in 1 .. MaxRoles
      BY <1>1, <3>4, Bounds DEF AccessInv, DecidedFrom
    <3>6. QED
      BY <3>1, <3>2, <3>3, <3>4, <3>5 DEF TypeOK, Places
  <2>2. GuildCacheFresh
    BY <1>1, <2>0, HandledIs, Known DEF AccessInv, GuildFresh, InvalidatedSince, GuildCacheFresh
  <2>3. perm.entry # NoEntry => perm.entry.channel # 0
    BY <1>1, <2>0 DEF AccessInv, Types, Decisions, EntryWhole, NoEntry
  <2>4. ChannelDecisionFresh
    BY <1>1, <2>0, <2>3, HandledIs, Known
    DEF AccessInv, EntryWhole, FetchedSince, DecidedFrom, ClearedSince, ChannelDecisionFresh
  <2>5. StrictIsCurrent
    BY <1>1 DEF AccessInv, StrictAlone, StrictIsCurrent
  <2>6. QED
    BY <2>1, <2>2, <2>4, <2>5 DEF AccessCurrent
<1>2. QED
  BY <1>1, AccessInvariant, PTL

(* A refresh that was overtaken never replaces newer roles with older ones: a   *)
(* leader that is not the current one publishes nothing, and the current one    *)
(* has fetched after everything that was published.                             *)
THEOREM RefreshesAreMonotone ==
  ASSUME AccessAssumption
  PROVE  Spec => RefreshMonotone
<1>1. ASSUME AccessInv, [Next]_vars PROVE RefreshMonotoneStep \/ UNCHANGED vars
  <2>0. Types
    BY <1>1 DEF AccessInv
  <2>1. \/ UNCHANGED vars \/ guild'.entry \in {0, guild.entry} \/ \E r \in Request : PublishGuildInfo(r)
    <3>1. ASSUME NEW r \in Request, NEW x PROVE [guild EXCEPT !.refresh = x].entry = guild.entry
      BY <2>0 DEF Types, Guilds
    <3>2. [guild EXCEPT !.entry = 0].entry = 0 /\ [guild EXCEPT !.failure = FALSE].entry = guild.entry
      BY <2>0 DEF Types, Guilds
    <3>3. [guild EXCEPT !.refresh.old = TRUE].entry = guild.entry
      BY <2>0 DEF Types, Guilds
    <3>4. CASE UNCHANGED guild
      BY <3>4
    <3>5. CASE \E e \in Event : InvalidateGuildCache(e)
      BY <3>5 DEF InvalidateGuildCache
    <3>6. CASE Expire
      BY <3>2, <3>6 DEF Expire
    <3>7. CASE RefreshAges
      BY <3>3, <3>7 DEF RefreshAges
    <3>8. CASE \E r \in Request : GuildInfo(r)
      BY <3>1, <3>8 DEF GuildInfo
    <3>9. \/ UNCHANGED vars \/ UNCHANGED guild \/ Expire \/ RefreshAges
          \/ \E e \in Event : InvalidateGuildCache(e)
          \/ \E r \in Request : GuildInfo(r) \/ PublishGuildInfo(r)
      BY <1>1 DEF Next, Work, ChangeRoles, ChangeChannel, InvalidateForUser, ClearPermissionCache, Begin,
                  Waited, FetchGuildInfo, FetchChannel, CacheChannelPermission,
                  CacheGuildAdminPermission, Again, Drop
    <3>10. QED
      BY <3>4, <3>5, <3>6, <3>7, <3>8, <3>9
  <2>2. CASE \E r \in Request : PublishGuildInfo(r)
    BY <1>1, <2>0, <2>2, Publishes, Known DEF AccessInv, GuildFresh, GuildIs, RefreshMonotoneStep
  <2>3. QED
    BY <2>1, <2>2 DEF RefreshMonotoneStep
<1>2. QED
  BY <1>1, AccessInvariant, PTL DEF Spec, RefreshMonotone
=============================================================================
