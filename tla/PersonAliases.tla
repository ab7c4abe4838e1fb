--------------------------- MODULE PersonAliases ---------------------------
(***************************************************************************)
(* Names people are known by.  Every summary proposes the nicknames of the *)
(* participants as aliases to review; administrators accept, dismiss,      *)
(* rename and archive them, and write their own.  A proposal has an id     *)
(* made from its names, and meets two keys: the primary key, and the       *)
(* unique index on the names of active rows, which alone is the one its    *)
(* statement knows how to resolve.                                         *)
(***************************************************************************)
EXTENDS Naturals

CONSTANTS
  Identity,  \* pairs of a canonical name and an alias, in lower case
  Manual,    \* ids of aliases written by hand
  Meeting,   \* meetings whose summary is made
  Channel,   \* voice channel of every meeting
  NoMeeting, \* source_meeting_id IS NULL
  Nobody     \* a NULL actor

(* A proposal's id is a hash of its names: the identity stands for it.     *)
Alias == Identity \cup Manual

Review == {"unreviewed", "accepted", "dismissed"}

(* Confidence: none or below, at, and above the 0.650 of a proposal.       *)
Confidence == 1 .. 3
Proposed == 2

VARIABLES
  row,  \* person_aliases
  names \* the names a participant went by in the summary under way, or {}

vars == <<row, names>>

NoRow == [live |-> FALSE, identity |-> Nobody, source |-> "manual", anchor |-> NoMeeting,
          confidence |-> 1, active |-> FALSE, review |-> "unreviewed", archived |-> FALSE,
          by |-> Nobody, reviewer |-> Nobody]

Init == row = [a \in Alias |-> NoRow] /\ names = [meeting |-> NoMeeting, left |-> {}]

ActiveWith(i) == {a \in Alias : row[a].live /\ row[a].active /\ row[a].identity = i}

-----------------------------------------------------------------------------
(* The administrator's requests.  One that would make a second active row  *)
(* of the same names meets the index and changes nothing.                  *)

SourceRefs(source, anchor) == source # "vc_participant" => anchor = NoMeeting

InsertedAlias(i, source, anchor, confidence, active, review) ==
  [live |-> TRUE, identity |-> i, source |-> source, anchor |-> anchor,
   confidence |-> confidence, active |-> active, review |-> review, archived |-> FALSE, by |-> "admin",
   reviewer |-> IF review = "unreviewed" THEN Nobody ELSE "admin"]

CreatePersonAlias(a, i, source, anchor, confidence, active, review) ==
  /\ ~row[a].live /\ SourceRefs(source, anchor)
  /\ active => ActiveWith(i) = {}
  /\ row' = [row EXCEPT ![a] = InsertedAlias(i, source, anchor, confidence, active, review)]
  /\ UNCHANGED names

UpdatedAlias(r, i, confidence, active, review) ==
  [r EXCEPT !.identity = i, !.confidence = confidence, !.active = active, !.review = review,
            !.by = "admin",
            !.reviewer = IF review = "unreviewed" THEN Nobody
                         ELSE IF r.review # review \/ @ = Nobody THEN "admin" ELSE @]

UpdatePersonAlias(a, i, confidence, active, review) ==
  /\ row[a].live /\ ~row[a].archived
  /\ active => ActiveWith(i) \subseteq {a}
  /\ row' = [row EXCEPT ![a] = UpdatedAlias(@, i, confidence, active, review)]
  /\ UNCHANGED names

ArchivedAlias(r) ==
  IF r.archived THEN r ELSE [r EXCEPT !.active = FALSE, !.archived = TRUE, !.by = "admin"]

ArchivePersonAlias(a) ==
  /\ row[a].live
  /\ row' = [row EXCEPT ![a] = ArchivedAlias(@)]
  /\ UNCHANGED names

-----------------------------------------------------------------------------
(* A summary loads its context: first it proposes the names of the people  *)
(* who spoke, one statement for each.                                      *)
BuildCandidates(m, heard) ==
  /\ names.left = {}
  /\ names' = [meeting |-> m, left |-> heard]
  /\ UNCHANGED row

Candidate(i) ==
  [live |-> TRUE, identity |-> i, source |-> "vc_participant", anchor |-> names.meeting,
   confidence |-> Proposed, active |-> TRUE, review |-> "unreviewed", archived |-> FALSE,
   by |-> "system", reviewer |-> Nobody]

(* Mutant: a reviewed row is refreshed as well.                            *)
MutRefreshable(r) == r.source = "vc_participant" /\ ~r.archived /\ r.confidence <= Proposed

(* The WHERE of ON CONFLICT DO UPDATE.                                     *)
Refreshable(r) ==
  /\ r.source = "vc_participant" /\ r.review = "unreviewed" /\ ~r.archived
  /\ r.confidence <= Proposed

Refreshed(r) ==
  [r EXCEPT !.anchor = names.meeting, !.confidence = Proposed, !.by = "system"]

(* An active row of the names is refreshed or left alone; otherwise the    *)
(* proposal is inserted, unless a row has its id (the statement fails and  *)
(* the loop goes on).                                                      *)
UpsertCandidate(i) ==
  /\ i \in names.left
  /\ row' = [a \in Alias |->
       IF a \in ActiveWith(i) THEN IF Refreshable(row[a]) THEN Refreshed(row[a]) ELSE row[a]
       ELSE IF a = i /\ ActiveWith(i) = {} /\ ~row[i].live THEN Candidate(i) ELSE row[a]]
  /\ names' = [names EXCEPT !.left = @ \ {i}]

(* The load fails or the process stops.                                    *)
StopProposing ==
  /\ names.left # {}
  /\ names' = [names EXCEPT !.left = {}]
  /\ UNCHANGED row

(* The aliases a summary of the meeting is given: those that come from the *)
(* meetings of its channel.                                                *)
GivenAliases(m) ==
  {a \in Alias : /\ row[a].live /\ row[a].active /\ ~row[a].archived
                 /\ row[a].review = "accepted"
                 /\ row[a].anchor \in {k \in Meeting : Channel[k] = Channel[m]}}

Next ==
  \/ \E a \in Manual, i \in Identity, confidence \in Confidence, active \in BOOLEAN, review \in Review,
       source \in {"manual", "vc_participant"}, anchor \in Meeting \cup {NoMeeting} :
         CreatePersonAlias(a, i, source, anchor, confidence, active, review)
  \/ \E a \in Alias, i \in Identity, c \in Confidence, active \in BOOLEAN, review \in Review :
       UpdatePersonAlias(a, i, c, active, review)
  \/ \E a \in Alias : ArchivePersonAlias(a)
  \/ \E m \in Meeting, heard \in SUBSET Identity : BuildCandidates(m, heard)
  \/ \E i \in Identity : UpsertCandidate(i)
  \/ StopProposing

Spec == Init /\ [][Next]_vars

-----------------------------------------------------------------------------
(* What an administrator decided stands: a proposal never changes a row    *)
(* that was reviewed, whatever names it was given meanwhile, and what a    *)
(* summary is given changes by an administrator's hand alone.              *)
ReviewStandsStep ==
  /\ \A a \in Alias :
       row[a].review # "unreviewed" /\ ~row[a].archived /\ row'[a] # row[a] =>
         row'[a].by = "admin"
  /\ names # names' => \A m \in Meeting : GivenAliases(m)' = GivenAliases(m)

ReviewStands == [][ReviewStandsStep]_vars

(* An archived row never changes again, and a proposal that was archived   *)
(* is not repeated: the unique index does not hold its names any more, but *)
(* the primary key still holds the id made from them, so that no later     *)
(* summary brings an active row of those names.  (An archived alias that   *)
(* was renamed, or was written by hand, has another id than its names      *)
(* would be proposed under, and is proposed again.)                        *)
ArchivedFinalStep ==
  /\ \A a \in Alias : row[a].archived => row'[a] = row[a]
  /\ \A i \in Identity : row[i].archived /\ names' # names => ActiveWith(i)' = ActiveWith(i)

ArchivedFinal == [][ArchivedFinalStep]_vars

(* Every statement keeps the CHECK constraints of the table, so none of    *)
(* them can fail on a row it changes: a reviewed row has a reviewer and    *)
(* only it has one, an archived row is not active, and a row of a meeting  *)
(* comes from its participants.                                            *)
ChecksHold ==
  \A a \in Alias :
    /\ (row[a].review = "unreviewed") <=> (row[a].reviewer = Nobody)
    /\ row[a].archived => ~row[a].active
    /\ row[a].anchor # NoMeeting => row[a].source = "vc_participant"

=============================================================================
