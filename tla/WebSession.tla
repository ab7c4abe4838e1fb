----------------------------- MODULE WebSession -----------------------------
(***************************************************************************)
(* Signing in, signed requests and signing out.  A session is a signed     *)
(* cookie; the server keeps only which sessions were revoked, a short      *)
(* cache of the user's membership and the marker of a membership check     *)
(* under way.  Responses arrive when they arrive: one that renews the      *)
(* cookie may do so after a logout has cleared it.  A transcript stream    *)
(* lives on after its request and looks at the session again by itself.    *)
(*                                                                         *)
(* There is one user.  Time is discrete; 0 stands for "no time".           *)
(***************************************************************************)
EXTENDS Naturals, FiniteSets

CONSTANTS
  Browser,
  Request,
  None,
  MaxTime,        \* bound on time
  SessionTtl,     \* SESSION_TTL_SECS
  VerifyInterval, \* SESSION_MEMBERSHIP_VERIFY_INTERVAL_SECS
  CacheTtl,       \* MEMBERSHIP_CACHE_TTL_SECS
  InflightTime,   \* MEMBERSHIP_REVERIFY_INFLIGHT_SECS
  StateTtl,       \* OAUTH_STATE_TTL_SECS
  StreamInterval, \* TRANSCRIPT_SSE_SESSION_REVALIDATE_INTERVAL
  MaxLogins,      \* bound on logins
  MaxFaults,      \* bound on failed calls and dropped requests
  MaxRequests     \* bound on requests

NoneAssumption == None \notin Request
BoundAssumption ==
  /\ {MaxTime, SessionTtl, VerifyInterval, CacheTtl, InflightTime, StateTtl, StreamInterval}
       \subseteq Nat \ {0}
  /\ {MaxLogins, MaxFaults, MaxRequests} \subseteq Nat

VARIABLES
  now,
  member,   \* the user is a member of the guild, at Discord
  left,     \* when the user left it
  states,   \* OAuth states handed out: nonce, browser that asked, time
  nonce,    \* nonce cookie of a browser
  jar,      \* session cookie of a browser
  logins,   \* logins so far
  ended,    \* when a login's session was revoked
  revoked,  \* session_revocations: issue times
  cache,    \* MembershipCache: answer, when it was seen at Discord, expiry
  inflight, \* MembershipReverifyInflight: leader and start
  req, stream,
  faults, served

vars == <<now, member, left, states, nonce, jar, logins, ended, revoked, cache, inflight,
          req, stream, faults, served>>
auth == <<states, nonce, logins>>

NoCookie == [login |-> 0, by |-> None, issued |-> 0, exp |-> 0, verified |-> 0]
NoAnswer == [answer |-> "none", seen |-> 0, until |-> 0]
NoCheck == [leader |-> None, since |-> 0]
IdleRequest == [pc |-> "idle", browser |-> None, session |-> NoCookie, late |-> FALSE,
                answer |-> "none", seen |-> 0, fresh |-> NoCookie, cached |-> TRUE]
NoStream == [open |-> FALSE, session |-> NoCookie, opened |-> 0, checked |-> 0, polled |-> 0]

(* A cookie from before issued_at and verified_at were part of it.         *)
LegacyCookie(b) == [login |-> 1, by |-> b, issued |-> 0, exp |-> 1 + SessionTtl, verified |-> 0]

Init ==
  /\ now = 1 /\ member = TRUE /\ left = 0
  /\ states = {} /\ nonce = [b \in Browser |-> 0]
  /\ \/ jar = [b \in Browser |-> NoCookie] /\ logins = 0
     \/ \E b \in Browser :
          jar = [c \in Browser |-> IF c = b THEN LegacyCookie(b) ELSE NoCookie] /\ logins = 1
  /\ ended = [l \in 1 .. MaxLogins + 1 |-> 0]
  /\ revoked = {} /\ cache = NoAnswer /\ inflight = NoCheck
  /\ req = [r \in Request |-> IdleRequest]
  /\ stream = [r \in Request |-> NoStream]
  /\ faults = 0 /\ served = 0

Fault == faults < MaxFaults /\ faults' = faults + 1

-----------------------------------------------------------------------------
(* Signing in.                                                             *)

(* A new nonce in a cookie and a signed state that holds its digest.       *)
AuthLogin(b) ==
  /\ logins < MaxLogins /\ Cardinality(states) < MaxLogins
  /\ LET n == Cardinality(states) + 1 IN
     /\ states' = states \cup {[nonce |-> n, by |-> b, at |-> now]}
     /\ nonce' = [nonce EXCEPT ![b] = n]
  /\ UNCHANGED <<now, member, left, jar, logins, ended, revoked, cache, inflight, req, stream, faults, served>>

VerifyOauthState(s, b) == nonce[b] # 0 /\ s.nonce = nonce[b] /\ now - s.at <= StateTtl

NewSession(b) ==
  [login |-> logins + 1, by |-> b, issued |-> now, exp |-> now + SessionTtl, verified |-> now]

(* Whatever happens once the state is verified, the nonce is cleared.      *)
AuthCallback(b, s) ==
  /\ VerifyOauthState(s, b) /\ logins <= MaxLogins
  /\ nonce' = [nonce EXCEPT ![b] = 0]
  /\ \/ /\ member
        /\ jar' = [jar EXCEPT ![b] = [NewSession(b) EXCEPT !.by = s.by]]
        /\ logins' = logins + 1
        /\ UNCHANGED faults
     \/ /\ ~member \/ faults < MaxFaults
        /\ faults' = IF member THEN faults + 1 ELSE faults
        /\ UNCHANGED <<jar, logins>>
  /\ UNCHANGED <<now, member, left, states, ended, revoked, cache, inflight, req, stream, served>>

-----------------------------------------------------------------------------
(* A request to a protected route.                                         *)

VerifySession(c) ==
  LET issued == IF c.issued = 0 THEN c.exp - SessionTtl ELSE c.issued IN
  [c EXCEPT !.issued = issued, !.verified = IF c.verified = 0 THEN issued ELSE @]

Valid(c) == c.login # 0 /\ now < c.exp

RequireAuth(r, b) ==
  /\ req[r].pc = "idle" /\ served < MaxRequests
  /\ Valid(jar[b])
  /\ served' = served + 1
  /\ req' = [req EXCEPT ![r] =
       [IdleRequest EXCEPT !.pc = "revoked?", !.browser = b, !.session = VerifySession(jar[b]),
                           !.late = ended[jar[b].login] # 0]]
  /\ UNCHANGED <<now, member, left, auth, jar, ended, revoked, cache, inflight, stream, faults>>

Denied(r) == req' = [req EXCEPT ![r].pc = "denied"]
Cleared(b) == [jar EXCEPT ![b] = NoCookie]

SessionIsRevoked(r) ==
  /\ req[r].pc = "revoked?"
  /\ \/ /\ req[r].session.issued \in revoked
        /\ Denied(r) /\ jar' = Cleared(req[r].browser)
        /\ UNCHANGED faults
     \/ /\ req[r].session.issued \notin revoked
        /\ req' = [req EXCEPT ![r].pc = "member?"]
        /\ UNCHANGED <<jar, faults>>
     \/ Fault /\ Denied(r) /\ UNCHANGED jar
  /\ UNCHANGED <<now, member, left, auth, ended, revoked, cache, inflight, stream, served>>

Answer(r, answer, seen) ==
  [req EXCEPT ![r] = [@ EXCEPT !.pc = "decide", !.answer = answer, !.seen = seen]]

Cached == cache.answer # "none" /\ now < cache.until

StaleCheck == now - inflight.since >= InflightTime

(* The cached answer, or wait for the check under way, or lead one; a      *)
(* check that has taken too long is forgotten first.                       *)
VerifyMember(r) ==
  /\ req[r].pc = "member?"
  /\ \/ /\ req[r].cached /\ Cached
        /\ req' = Answer(r, cache.answer, cache.seen)
        /\ UNCHANGED inflight
     \/ /\ ~(req[r].cached /\ Cached)
        /\ inflight.leader # None /\ ~StaleCheck
        /\ req' = [req EXCEPT ![r].pc = "follow"]
        /\ UNCHANGED inflight
     \/ /\ ~(req[r].cached /\ Cached)
        /\ inflight.leader = None \/ StaleCheck
        /\ inflight' = [leader |-> r, since |-> now]
        /\ req' = [req EXCEPT ![r].pc = "ask"]
  /\ UNCHANGED <<now, member, left, auth, jar, ended, revoked, cache, stream, faults, served>>

(* Notified or timed out: whatever is cached now, or once more.            *)
Follow(r) ==
  /\ req[r].pc = "follow"
  /\ req' = IF Cached THEN Answer(r, cache.answer, cache.seen) ELSE [req EXCEPT ![r].pc = "member?"]
  /\ UNCHANGED <<now, member, left, auth, jar, ended, revoked, cache, inflight, stream, faults, served>>

IsGuildMember(r) ==
  /\ req[r].pc = "ask"
  /\ \/ /\ req' = [req EXCEPT ![r] = [@ EXCEPT !.pc = "publish", !.seen = now,
                     !.answer = IF member THEN "member" ELSE "stranger"]]
        /\ UNCHANGED faults
     \/ /\ req' = [req EXCEPT ![r] = [@ EXCEPT !.pc = "publish", !.seen = now, !.answer = "error"]]
        /\ Fault
  /\ UNCHANGED <<now, member, left, auth, jar, ended, revoked, cache, inflight, stream, served>>

IsLeader(r) == inflight.leader = r

(* The marker is given up under one lock, the answer stored under another: *)
(* in between the next check may begin.                                    *)
PublishMembership(r) ==
  /\ req[r].pc = "publish"
  /\ \/ /\ IsLeader(r)
        /\ inflight' = NoCheck
        /\ req' = [req EXCEPT ![r].pc = "store"]
     \/ /\ ~IsLeader(r)
        /\ req' = [req EXCEPT ![r].pc = "member?"]
        /\ UNCHANGED inflight
  /\ UNCHANGED <<now, member, left, auth, jar, ended, revoked, cache, stream, faults, served>>

CacheGuildMembership(r) ==
  /\ req[r].pc = "store"
  /\ cache' = [answer |-> req[r].answer, seen |-> req[r].seen, until |-> now + CacheTtl]
  /\ req' = Answer(r, req[r].answer, req[r].seen)
  /\ UNCHANGED <<now, member, left, auth, jar, ended, revoked, inflight, stream, faults, served>>

(* Mutant: a renewed cookie counts as issued anew.                         *)
MutRefreshedCookie(s) == [s EXCEPT !.verified = now, !.issued = now]

RefreshedCookie(s) == [s EXCEPT !.verified = now]

NeedsRefresh(s) == now - s.verified >= VerifyInterval

IsMember(r) == req[r].answer = "member"

(* With a failed check a settings route tries the global token without the *)
(* cache.                                                                  *)
Decide(r) ==
  /\ req[r].pc = "decide"
  /\ LET s == req[r].session IN
     \/ /\ IsMember(r)
        /\ req' = [req EXCEPT ![r] = [@ EXCEPT !.pc = "served",
             !.fresh = IF NeedsRefresh(s) THEN RefreshedCookie(s) ELSE NoCookie]]
        /\ UNCHANGED jar
     \/ /\ req[r].answer = "stranger"
        /\ Denied(r) /\ jar' = Cleared(req[r].browser)
     \/ /\ req[r].answer = "error"
        /\ \/ Denied(r)
           \/ req[r].cached /\ req' = [req EXCEPT ![r].pc = "member?", ![r].cached = FALSE]
        /\ UNCHANGED jar
  /\ UNCHANGED <<now, member, left, auth, ended, revoked, cache, inflight, stream, faults, served>>

(* The response arrives, with a renewed cookie if there is one; or it is   *)
(* that of a transcript stream, which stays open.                          *)
Respond(r) ==
  /\ req[r].pc \in {"served", "denied"}
  /\ LET fresh == req[r].fresh IN
     jar' = IF fresh = NoCookie THEN jar ELSE [jar EXCEPT ![req[r].browser] = fresh]
  /\ \/ UNCHANGED stream
     \/ /\ req[r].pc = "served" /\ ~stream[r].open
        /\ stream' = [stream EXCEPT ![r] =
             [open |-> TRUE, session |-> req[r].session, opened |-> now, checked |-> now, polled |-> 0]]
  /\ req' = [req EXCEPT ![r] = IdleRequest]
  /\ UNCHANGED <<now, member, left, auth, ended, revoked, cache, inflight, faults, served>>

(* The client goes away at an await.                                       *)
DropRequest(r) ==
  /\ req[r].pc \in {"member?", "follow", "ask", "publish", "store"}
  /\ Fault
  /\ req' = [req EXCEPT ![r] = IdleRequest]
  /\ UNCHANGED <<now, member, left, auth, jar, ended, revoked, cache, inflight, stream, served>>

-----------------------------------------------------------------------------
(* Streams and signing out.                                                *)

(* The database is asked every StreamInterval.                             *)
Revalidate(r) == now - stream[r].checked >= StreamInterval

StreamPoll(r) ==
  /\ stream[r].open /\ stream[r].polled < now
  /\ LET s == stream[r].session IN
     \/ /\ now >= s.exp \/ (Revalidate(r) /\ s.issued \in revoked)
        /\ stream' = [stream EXCEPT ![r] = NoStream]
        /\ UNCHANGED faults
     \/ /\ now < s.exp /\ Revalidate(r)
        /\ stream' = [stream EXCEPT ![r] = NoStream]
        /\ Fault
     \/ /\ now < s.exp /\ ~(Revalidate(r) /\ s.issued \in revoked)
        /\ stream' = [stream EXCEPT ![r].polled = now,
                                    ![r].checked = IF Revalidate(r) THEN now ELSE @]
        /\ UNCHANGED faults
  /\ UNCHANGED <<now, member, left, auth, jar, ended, revoked, cache, inflight, req, served>>

(* The cookie is cleared only if the revocation could be stored.           *)
AuthLogout(b) ==
  /\ Valid(jar[b])
  /\ LET s == VerifySession(jar[b]) IN
     \/ /\ revoked' = revoked \cup {s.issued}
        /\ ended' = [ended EXCEPT ![s.login] = now]
        /\ jar' = Cleared(b)
        /\ UNCHANGED faults
     \/ Fault /\ UNCHANGED <<revoked, ended, jar>>
  /\ UNCHANGED <<now, member, left, auth, cache, inflight, req, stream, served>>

LeaveGuild ==
  /\ member
  /\ member' = FALSE /\ left' = now
  /\ UNCHANGED <<now, auth, jar, ended, revoked, cache, inflight, req, stream, faults, served>>

(* Streams poll at least once in a unit of time.                           *)
Tick ==
  /\ now < MaxTime
  /\ \A r \in Request : stream[r].open => stream[r].polled = now
  /\ now' = now + 1
  /\ UNCHANGED <<member, left, auth, jar, ended, revoked, cache, inflight, req, stream, faults, served>>

Step(r) ==
  \/ SessionIsRevoked(r) \/ VerifyMember(r) \/ Follow(r) \/ IsGuildMember(r)
  \/ PublishMembership(r) \/ CacheGuildMembership(r) \/ Decide(r)

Next ==
  \/ \E b \in Browser : AuthLogin(b) \/ AuthLogout(b) \/ \E s \in states : AuthCallback(b, s)
  \/ \E r \in Request : (\E b \in Browser : RequireAuth(r, b)) \/ Step(r) \/ Respond(r)
                        \/ DropRequest(r) \/ StreamPoll(r)
  \/ LeaveGuild \/ Tick

Spec == Init /\ [][Next]_vars

-----------------------------------------------------------------------------
TypeOK ==
  /\ now \in 1 .. MaxTime /\ member \in BOOLEAN /\ left \in 0 .. MaxTime
  /\ logins \in 0 .. MaxLogins + 1
  /\ revoked \subseteq 1 .. now
  /\ inflight.leader \in Request \cup {None}
  /\ cache.answer \in {"none", "member", "stranger", "error"}
  /\ \A r \in Request :
       req[r].pc \in {"idle", "revoked?", "member?", "follow", "ask", "publish", "store",
                      "decide", "served", "denied"}
  /\ \A b \in Browser : jar[b].exp \in 0 .. MaxTime + SessionTtl

(* A logout is final: no request that comes after it is served with any    *)
(* cookie of that login, not with one renewed by a response that was on    *)
(* its way, not with a legacy one.                                         *)
LogoutFinal == \A r \in Request : req[r].pc = "served" => ~req[r].late

(* Renewing a cookie never makes a session last longer than its login      *)
(* allows; the same login always has the same expiry.                      *)
SessionEndsStep ==
  \A b \in Browser :
    jar[b].login # 0 /\ jar'[b].login = jar[b].login => jar'[b].exp = jar[b].exp

SessionEnds == [][SessionEndsStep]_vars

(* A stream ends within StreamInterval of the logout of its session (or of *)
(* its own opening, when the response came after the logout), and no poll  *)
(* after the session's expiry leaves it open.                              *)
StreamEnds ==
  \A r \in Request : stream[r].open =>
    LET s == stream[r].session IN
    /\ stream[r].polled < s.exp
    /\ ended[s.login] # 0 =>
         now <= StreamInterval + (IF ended[s.login] < stream[r].opened THEN stream[r].opened
                                  ELSE ended[s.login])

(* A check that was overtaken is not published: whoever gives up the       *)
(* marker of the check has an answer at least as new as the cached one and *)
(* as every answer that is still to be stored.  The stores themselves are  *)
(* not ordered: one that is held up may put an older answer over a newer.  *)
PublishedInOrderStep ==
  \A r \in Request : req[r].pc = "publish" /\ req'[r].pc = "store" =>
    /\ cache.seen <= req[r].seen
    /\ \A q \in Request : req[q].pc = "store" => req[q].seen <= req[r].seen

PublishedInOrder == [][PublishedInOrderStep]_vars

(* Nobody who left the guild is served from a check made after the         *)
(* departure, nor once the cached answer from before it has expired, even  *)
(* though the cookie was verified when the user still belonged to it.      *)
StrangerOutStep ==
  \A r \in Request : req[r].pc # "served" /\ req'[r].pc = "served" /\ left # 0 =>
    req[r].seen <= left /\ req[r].answer = "member"

StrangerOut == [][StrangerOutStep]_vars

(* A browser is signed in only by a login it asked for itself.             *)
LoginIsOwn == \A b \in Browser : jar[b].login # 0 => jar[b].by = b

(* With nothing left to wait for but time, every request is answered.      *)
Fairness ==
  /\ WF_vars(Tick)
  /\ \A r \in Request :
       /\ WF_vars(SessionIsRevoked(r)) /\ WF_vars(VerifyMember(r)) /\ WF_vars(Follow(r))
       /\ WF_vars(IsGuildMember(r)) /\ WF_vars(PublishMembership(r)) /\ WF_vars(Decide(r))
       /\ WF_vars(CacheGuildMembership(r)) /\ WF_vars(Respond(r)) /\ WF_vars(StreamPoll(r))

FairSpec == Spec /\ Fairness

(* A follower is answered although the leader's client has gone away: the  *)
(* check it waits for is forgotten after InflightTime (a check that starts *)
(* less than that before MaxTime has no time left to be forgotten).        *)
FollowerAnswered ==
  \A r \in Request :
    (req[r].pc = "follow")
      ~> (req[r].pc = "idle" \/ (inflight.leader # None /\ inflight.since + InflightTime > MaxTime))
=============================================================================
