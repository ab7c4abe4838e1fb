------------------------- MODULE TranscriptFeedback -------------------------
(***************************************************************************)
(* What members of a guild say about a transcript, and what an             *)
(* administrator makes of it.  The table limits what one member writes     *)
(* about one meeting in a day and refuses what he wrote before; both are   *)
(* checked by a trigger that counts rows, under a lock held until the      *)
(* transaction ends.  A member whose answer was lost sends the same again. *)
(***************************************************************************)
EXTENDS Naturals, FiniteSets

CONSTANTS
  Request,    \* POST requests, and the ids of the rows they insert
  User,       \* members
  Note,       \* texts
  Body,       \* bodies a request may have
  DayQuota,   \* quota_limit
  LastDay,    \* bound on the days that pass
  Nobody      \* a NULL actor

QuotaAssumption == DayQuota \in Nat \ {0} /\ LastDay \in Nat

Type == {"mistranscription", "speaker", "term", "person_alias", "domain_knowledge", "ai_memory"}
Part == {"text", "speaker", "term_type"}
Target == {"none", "knowledge", "memory", "both"}
Status == {"open", "accepted", "dismissed", "converted_to_domain_knowledge",
           "converted_to_ai_memory"}

(* A request's body: given says what it tells (an original or corrected    *)
(* text, a speaker or the corrected one, the type of a term), target which *)
(* of the two target ids it names, and known whether every id it names,    *)
(* the segment's too, is one of the guild and the meeting.                 *)
Content == [type : Type, given : SUBSET Part, target : Target, known : BOOLEAN, note : Note]
BodyAssumption == Body \subseteq Content

VARIABLES
  day,    \* the day of NOW()
  tx,     \* the transaction of each request
  rows,   \* transcript_feedback, by id
  status  \* what the request was answered

vars == <<day, tx, rows, status>>

Idle == [phase |-> "idle"]
NoRow == [status |-> "none"]

Init ==
  /\ day = 0
  /\ tx = [r \in Request |-> Idle]
  /\ rows = [r \in Request |-> NoRow]
  /\ status = [r \in Request |-> "none"]

Active(r, phases) == tx[r].phase \in phases
Stored == {r \in Request : rows[r] # NoRow}

-----------------------------------------------------------------------------
(* What a type of feedback has to tell.                                    *)
Tells(type, given) ==
  /\ type = "mistranscription" => "text" \in given
  /\ type = "speaker" => "speaker" \in given
  /\ type = "term" => "term_type" \in given
  /\ type = "person_alias" => given \cap {"text", "speaker"} # {}

ValidShape(c) ==
  /\ c.target # "both"
  /\ Tells(c.type, c.given)
  /\ c.type = "domain_knowledge" => c.target = "knowledge"
  /\ c.type = "ai_memory" => c.target = "memory"

(* The CHECK constraints of the table on type, status and targets.         *)
RowChecks(row) ==
  /\ Tells(row.type, row.given)
  /\ row.type = "domain_knowledge" => row.target = "knowledge"
  /\ row.type = "ai_memory" => row.target = "memory"
  /\ row.status = "converted_to_domain_knowledge" => row.target = "knowledge"
  /\ row.status = "converted_to_ai_memory" => row.target = "memory"
  /\ row.target # "both"
  /\ (row.status = "open") = (row.reviewer = Nobody)

(* The hash separates its parts by their lengths: equal keys, equal bodies. *)
IdempotencyKey(c) == c

(* A request passes its checks and its statement begins: NOW() is fixed.   *)
CreateFeedback(r, u, c) ==
  /\ tx[r] = Idle /\ status[r] = "none"
  /\ IF ValidShape(c)
     THEN /\ tx' = [tx EXCEPT ![r] = [phase |-> "begun", user |-> u, content |-> c,
                                      day |-> day, key |-> IdempotencyKey(c)]]
          /\ UNCHANGED status
     ELSE status' = [status EXCEPT ![r] = "bad_request"] /\ UNCHANGED tx
  /\ UNCHANGED <<day, rows>>

(* Mutant: the lock is not waited for.                                     *)
MutLockQuota(r) ==
  /\ Active(r, {"begun"})
  /\ tx' = [tx EXCEPT ![r].phase = "locked"]
  /\ UNCHANGED <<day, rows, status>>

(* pg_advisory_xact_lock of the member, the meeting and the day.           *)
LockQuota(r) ==
  /\ Active(r, {"begun"})
  /\ \A s \in Request : Active(s, {"locked", "inserted"}) =>
       <<tx[s].user, tx[s].day>> # <<tx[r].user, tx[r].day>>
  /\ tx' = [tx EXCEPT ![r].phase = "locked"]
  /\ UNCHANGED <<day, rows, status>>

Duplicates(r) == {s \in Stored : rows[s].user = tx[r].user /\ rows[s].key = tx[r].key}
Spent(u, d) == {s \in Stored : rows[s].user = u /\ rows[s].day = d}

NewRow(t) ==
  [status |-> "open", user |-> t.user, type |-> t.content.type, given |-> t.content.given,
   target |-> t.content.target, note |-> t.content.note, key |-> t.key, day |-> t.day,
   reviewer |-> Nobody]

(* The rest of the trigger and the statement, on the rows committed so     *)
(* far.  The unique index makes it wait for a transaction that has written *)
(* the same key (of another day).  An id that names nothing of the guild   *)
(* breaks a foreign key, which the handler has not looked at.              *)
InsertFeedback(r) ==
  /\ Active(r, {"locked"})
  /\ \A s \in Request : Active(s, {"inserted"}) =>
       <<tx[s].user, tx[s].key>> # <<tx[r].user, tx[r].key>>
  /\ LET failure ==
           IF Duplicates(r) # {} THEN "conflict"
           ELSE IF Cardinality(Spent(tx[r].user, tx[r].day)) >= DayQuota THEN "too_many_requests"
           ELSE IF ~RowChecks(NewRow(tx[r])) \/ ~tx[r].content.known
                THEN "internal_server_error"
           ELSE "none"
     IN IF failure = "none"
        THEN tx' = [tx EXCEPT ![r].phase = "inserted"] /\ UNCHANGED status
        ELSE tx' = [tx EXCEPT ![r] = Idle] /\ status' = [status EXCEPT ![r] = failure]
  /\ UNCHANGED <<day, rows>>

(* The statement commits; the answer may be lost on its way.               *)
CommitFeedback(r) ==
  /\ Active(r, {"inserted"})
  /\ rows' = [rows EXCEPT ![r] = NewRow(tx[r])]
  /\ tx' = [tx EXCEPT ![r] = Idle]
  /\ status' = [status EXCEPT ![r] = "created"]
  /\ UNCHANGED day

(* The connection or the process is lost and the transaction rolls back.   *)
LoseConnection(r) ==
  /\ tx[r] # Idle
  /\ tx' = [tx EXCEPT ![r] = Idle]
  /\ status' = [status EXCEPT ![r] = "internal_server_error"]
  /\ UNCHANGED <<day, rows>>

-----------------------------------------------------------------------------
ValidReview(st, target) ==
  /\ st # "open" /\ target # "both"
  /\ st = "converted_to_domain_knowledge" => target = "knowledge"
  /\ st = "converted_to_ai_memory" => target = "memory"
  /\ st \in {"accepted", "dismissed"} => target = "none"

Reviewed(row, st, target, who) ==
  IF row.status # "open" THEN row
  ELSE [row EXCEPT !.status = st, !.reviewer = who,
          !.target = CASE st = "converted_to_domain_knowledge" -> "knowledge"
                       [] st = "converted_to_ai_memory" -> "memory"
                       [] OTHER -> @]

(* A review that the constraints of the table refuse changes nothing.      *)
UpdateFeedbackStatus(r, st, target, known, who) ==
  /\ r \in Stored /\ ValidReview(st, target) /\ (target = "none" => known)
  /\ LET new == Reviewed(rows[r], st, target, who)
     IN rows' = [rows EXCEPT ![r] = IF RowChecks(new) /\ known THEN new ELSE @]
  /\ UNCHANGED <<day, tx, status>>

(* What a summary is given of the meeting.                                 *)
GivenFeedback == {r \in Stored : rows[r].status = "accepted"}

Midnight == day < LastDay /\ day' = day + 1 /\ UNCHANGED <<tx, rows, status>>

Next ==
  \/ \E r \in Request, u \in User, c \in Body : CreateFeedback(r, u, c)
  \/ \E r \in Request : LockQuota(r) \/ InsertFeedback(r) \/ CommitFeedback(r) \/ LoseConnection(r)
  \/ \E r \in Request, st \in Status, target \in Target, known \in BOOLEAN, who \in User :
       UpdateFeedbackStatus(r, st, target, known, who)
  \/ Midnight

Spec == Init /\ [][Next]_vars

-----------------------------------------------------------------------------
(* No member has more rows of one day than the quota allows, however many  *)
(* requests of his run at once.                                            *)
QuotaKept == \A u \in User, d \in 0 .. LastDay : Cardinality(Spent(u, d)) <= DayQuota

(* What a member sent twice is stored once, and what is refused as sent    *)
(* before is word for word what he sent.                                   *)
StoredOnce ==
  /\ \A r, s \in Stored : rows[r].user = rows[s].user /\ rows[r].key = rows[s].key => r = s
  /\ \A r \in Request : Active(r, {"begun", "locked", "inserted"}) =>
       \A s \in Duplicates(r) : rows[s].note = tx[r].content.note /\ rows[s].type = tx[r].content.type
                                 /\ (rows[s].status = "open" => rows[s].target = tx[r].content.target)

(* What the handler lets through, the CHECK constraints of the table let   *)
(* through: a malformed body is refused as the member's mistake, for every *)
(* type of feedback.  Only an id that names nothing of the guild gets to a *)
(* foreign key and is answered as an error of the server.                  *)
ShapeImpliesChecks ==
  \A r \in Request : Active(r, {"begun", "locked", "inserted"}) =>
    /\ RowChecks(NewRow(tx[r]))
    /\ Active(r, {"inserted"}) => tx[r].content.known

(* The first review stands: of two administrators one is refused, and what *)
(* summaries were given they keep being given.                             *)
ReviewedOnceStep ==
  /\ \A r \in Stored : rows[r].status # "open" => rows'[r] = rows[r]
  /\ GivenFeedback \subseteq GivenFeedback'

ReviewedOnce == [][ReviewedOnceStep]_vars
=============================================================================
