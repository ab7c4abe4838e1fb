-------------------------- MODULE SummaryTemplates --------------------------
(***************************************************************************)
(* A guild's summary templates, of which at most one is active.  Every     *)
(* request of the web API is one SQL statement whose parts see the same    *)
(* snapshot: one part makes the other templates inactive, another changes  *)
(* the template that is named.  Statements of several administrators       *)
(* overlap; a row changed since the snapshot is tested again before it is  *)
(* written (READ COMMITTED), and the partial unique index on active rows   *)
(* is checked at every write.  In which order the parts of one statement   *)
(* run is left open by the database.                                       *)
(***************************************************************************)
EXTENDS Naturals, FiniteSets

CONSTANTS
  Template,  \* ids of summary_templates
  Client,    \* requests under way
  Text,      \* names and bodies
  MaxEdits   \* bound on statements that begin

EditAssumption == MaxEdits \in Nat

VARIABLES
  row,     \* summary_templates
  stmt,    \* the statement of every client
  edits,   \* statements begun
  refused  \* clients whose statement met no other and was refused (history)

vars == <<row, stmt, edits, refused>>

NoRow == [live |-> FALSE, text |-> "none", active |-> FALSE, archived |-> FALSE, version |-> 0]
NoStmt == [op |-> "none", id |-> "none", text |-> "none", active |-> "keep",
           snap |-> {}, desired |-> FALSE, alone |-> TRUE]

Init ==
  /\ row = [t \in Template |-> NoRow]
  /\ stmt = [c \in Client |-> NoStmt]
  /\ edits = 0 /\ refused = {}

ActiveRows == {t \in Template : row[t].live /\ row[t].active /\ ~row[t].archived}

-----------------------------------------------------------------------------
(* A statement begins: it takes its snapshot.  desired is the active flag  *)
(* UPDATE_SUMMARY_TEMPLATE_SQL reads there when the request names none.    *)
Begin(c, op, t, text, active) ==
  /\ stmt[c].op = "none" /\ edits < MaxEdits
  /\ op = "insert" <=> ~row[t].live
  /\ op = "insert" => \A d \in Client : stmt[d].id # t \* a fresh Uuid
  /\ edits' = edits + 1
  /\ stmt' = [d \in Client |->
       IF d = c
       THEN [op |-> op, id |-> t, text |-> text, active |-> active, snap |-> ActiveRows,
             desired |-> /\ op = "update" => ~row[t].archived
                         /\ IF active = "keep" THEN row[t].active ELSE active = "true",
             alone |-> \A e \in Client \ {c} : stmt[e].op = "none"]
       ELSE [stmt[d] EXCEPT !.alone = @ /\ stmt[d].op = "none"]]
  /\ UNCHANGED <<row, refused>>

CreateSummaryTemplate(c, t, text, active) == Begin(c, "insert", t, text, active)
UpdateSummaryTemplate(c, t, text, active) == Begin(c, "update", t, text, active)
ActivateSummaryTemplate(c, t) == Begin(c, "activate", t, "none", "true")
ArchiveSummaryTemplate(c, t) == Begin(c, "archive", t, "none", "false")

-----------------------------------------------------------------------------
(* deactivate_others: the rows active in the snapshot that still are.      *)
DeactivateOthers(s) == IF s.desired THEN {t \in s.snap : t # s.id /\ t \in ActiveRows} ELSE {}

Inactive(r) == [r EXCEPT !.active = FALSE, !.version = @ + 1]

InsertedTemplate(s) ==
  [live |-> TRUE, text |-> s.text, active |-> s.desired, archived |-> FALSE, version |-> 1]

(* The row is tested again: one archived meanwhile is not updated.         *)
UpdatedTemplate(s) ==
  LET r == row[s.id]
      new == [r EXCEPT !.text = s.text, !.active = s.desired]
  IN IF r.archived \/ new = r THEN r ELSE [new EXCEPT !.version = @ + 1]

ActivatedTemplate(s) ==
  LET r == row[s.id]
  IN IF r.active /\ ~r.archived THEN r
     ELSE [r EXCEPT !.active = TRUE, !.archived = FALSE, !.version = @ + 1]

ArchivedTemplate(s) ==
  LET r == row[s.id]
  IN IF r.archived THEN r
     ELSE [r EXCEPT !.active = FALSE, !.archived = TRUE, !.version = @ + 1]

Written(s) ==
  CASE s.op = "insert" -> InsertedTemplate(s)
    [] s.op = "update" -> UpdatedTemplate(s)
    [] s.op = "activate" -> ActivatedTemplate(s)
    [] s.op = "archive" -> ArchivedTemplate(s)

(* A write of an active row meets the unique index.                        *)
Meets(s, others) == Written(s).active /\ ~Written(s).archived /\ others \ {s.id} # {}

(* The statement commits.  The others are made inactive first ...          *)
Commit(c) ==
  LET s == stmt[c]
  IN /\ s.op # "none" /\ ~Meets(s, ActiveRows \ DeactivateOthers(s))
     /\ row' = [t \in Template |-> IF t = s.id THEN Written(s)
                                   ELSE IF t \in DeactivateOthers(s) THEN Inactive(row[t])
                                   ELSE row[t]]
     /\ stmt' = [stmt EXCEPT ![c] = NoStmt]
     /\ UNCHANGED <<edits, refused>>

(* ... or the named row is written first and meets one of them, or one     *)
(* that became active since the snapshot: summary_template_mutation_status *)
(* answers CONFLICT and nothing has changed.                               *)
Conflict(c) ==
  LET s == stmt[c]
  IN /\ s.op # "none" /\ Meets(s, ActiveRows)
     /\ stmt' = [stmt EXCEPT ![c] = NoStmt]
     /\ refused' = IF s.alone THEN refused \cup {c} ELSE refused
     /\ UNCHANGED <<row, edits>>

Next ==
  \E c \in Client :
    \/ \E t \in Template, text \in Text, active \in {"true", "false"} :
         CreateSummaryTemplate(c, t, text, active)
    \/ \E t \in Template, text \in Text, active \in {"keep", "true", "false"} :
         UpdateSummaryTemplate(c, t, text, active)
    \/ \E t \in Template : ActivateSummaryTemplate(c, t) \/ ArchiveSummaryTemplate(c, t)
    \/ Commit(c) \/ Conflict(c)

Spec == Init /\ [][Next]_vars

-----------------------------------------------------------------------------
(* Every change of a template gives it a new version: what a manifest      *)
(* records of a template identifies its text, and its flags, whichever     *)
(* statements overlapped.                                                  *)
VersionPerChangeStep ==
  \A t \in Template : row[t].live /\ row'[t] # row[t] =>
    row'[t].version = row[t].version + 1

VersionPerChange == [][VersionPerChangeStep]_vars

(* An archived template comes back only through an activation of it; an    *)
(* edit that began before it was archived does not bring it back.          *)
BackByActivationStep ==
  \A t \in Template : row[t].archived /\ ~row'[t].archived =>
    \E c \in Client : stmt[c].op = "activate" /\ stmt[c].id = t /\ stmt'[c] = NoStmt

BackByActivation == [][BackByActivationStep]_vars

(* The guild is left without an active template only when the active one   *)
(* is archived or made inactive by name, or by an edit that asked for a    *)
(* template archived in the meantime: that edit answers NOT_FOUND and has  *)
(* still made the other template inactive.                                 *)
ActiveKeptStep ==
  ActiveRows # {} /\ ActiveRows' = {} =>
    \E c \in Client :
      /\ stmt'[c] = NoStmt
      /\ \/ stmt[c].op = "archive" /\ stmt[c].id \in ActiveRows
         \/ stmt[c].op = "update" /\ stmt[c].id \in ActiveRows /\ ~stmt[c].desired
         \/ stmt[c].op = "update" /\ row[stmt[c].id].archived

ActiveKept == [][ActiveKeptStep]_vars

(* Stated by the test of the front end that activates a second template:   *)
(* the activation of a template is answered with success.  A statement     *)
(* that meets no other one is never refused.                               *)
LoneStatementSucceeds == refused = {}
=============================================================================
