--------------------------- MODULE KnowledgeBase ---------------------------
(***************************************************************************)
(* Domain knowledge, AI memory notes and what a summary is given of them.  *)
(* Administrators create, edit, activate, archive and promote records      *)
(* through the web API while summary jobs load the records, write them as  *)
(* context files, and propose new notes of their own.  A job may crash     *)
(* between any two writes and is then run again.                           *)
(***************************************************************************)
EXTENDS Naturals, FiniteSets, FiniteSetsExt

CONSTANTS
  Item,      \* ids of domain_knowledge_items
  Manual,    \* ids of notes an administrator writes
  Meeting,   \* recorded meetings
  Channel,   \* voice channel of every meeting
  Text,      \* titles and bodies
  NoMeeting, \* source_meeting_id IS NULL
  None,      \* no manifest, no work
  ListLimit, \* SUMMARY_CONTEXT_LIST_LIMIT
  MaxClock,  \* bound on edits
  MaxRuns    \* bound on attempts of one job

LimitAssumption ==
  /\ ListLimit \in Nat \ {0} /\ MaxClock \in Nat /\ MaxRuns \in Nat
  /\ NoMeeting \notin Meeting

(* ai_memory_extraction_candidate_id is a hash of the meeting and the text *)
Note == Manual \cup (Meeting \X Text)

VARIABLES
  item,     \* domain_knowledge_items
  note,     \* ai_memory_notes
  clock,    \* NOW()
  promo,    \* the text a promotion has read, or None
  work,     \* the attempt of every meeting's summary job
  runs,     \* attempts begun
  files,    \* context files of every meeting's workspace
  leak,     \* its snapshot of protected bodies
  manifest, \* its context manifest
  approved, \* items an administrator asked to show in summaries (history)
  loaded    \* what the last load of a meeting's context read (history)

vars == <<item, note, clock, promo, work, runs, files, leak, manifest, approved, loaded>>
store == <<item, note, clock, promo, approved>>
space == <<files, leak, manifest>>

NoItem == [live |-> FALSE, text |-> None, active |-> FALSE, archived |-> FALSE,
           allow |-> FALSE, version |-> 0, stamp |-> 0]
NoNote == [live |-> FALSE, active |-> FALSE, archived |-> FALSE, pinned |-> FALSE,
           source |-> "manual", anchor |-> NoMeeting, stamp |-> 0]
Idle == [pc |-> "idle", items |-> {}, notes |-> {}, manifest |-> None, queue |-> {}]

Init ==
  /\ item = [d \in Item |-> NoItem] /\ note = [n \in Note |-> NoNote]
  /\ clock = 0 /\ promo = None /\ approved = {}
  /\ work = [m \in Meeting |-> Idle] /\ runs = [m \in Meeting |-> 0]
  /\ files = [m \in Meeting |-> None] /\ leak = [m \in Meeting |-> None]
  /\ manifest = [m \in Meeting |-> None]
  /\ loaded = [m \in Meeting |-> [notes |-> {}, eligible |-> {}]]

Tick == clock < MaxClock /\ clock' = clock + 1

-----------------------------------------------------------------------------
(* The statements on domain_knowledge_items.                               *)

InsertedItem(text, active, allow) ==
  [live |-> TRUE, text |-> text, active |-> active, archived |-> FALSE,
   allow |-> allow, version |-> 1, stamp |-> clock']

(* "keep" stands for a parameter left out: COALESCE with the old value.    *)
Coalesce(new, old) == IF new = "keep" THEN old ELSE new = "true"

UpdatedItem(i, text, active, allow) ==
  LET new == [i EXCEPT !.text = text, !.active = Coalesce(active, @), !.allow = Coalesce(allow, @)]
  IN IF new = i THEN i ELSE [new EXCEPT !.version = @ + 1, !.stamp = clock']

ActivatedItem(i) ==
  IF i.active /\ ~i.archived THEN i
  ELSE [i EXCEPT !.active = TRUE, !.archived = FALSE, !.version = @ + 1, !.stamp = clock']

ArchivedItem(i) ==
  IF i.archived THEN i
  ELSE [i EXCEPT !.active = FALSE, !.archived = TRUE, !.version = @ + 1, !.stamp = clock']

-----------------------------------------------------------------------------
(* The administrator's requests on domain knowledge.                       *)

Asked(d, allow) == IF allow THEN approved \cup {d} ELSE approved

CreateDomainKnowledge(d, text, active, allow) ==
  /\ ~item[d].live /\ Tick
  /\ item' = [item EXCEPT ![d] = InsertedItem(text, active, allow)]
  /\ approved' = Asked(d, allow)
  /\ UNCHANGED <<note, promo, work, runs, space, loaded>>

UpdateDomainKnowledge(d, text, active, allow) ==
  /\ item[d].live /\ ~item[d].archived /\ Tick
  /\ item' = [item EXCEPT ![d] = UpdatedItem(@, text, active, allow)]
  /\ approved' = Asked(d, allow = "true")
  /\ UNCHANGED <<note, promo, work, runs, space, loaded>>

ActivateDomainKnowledge(d) ==
  /\ item[d].live /\ Tick
  /\ item' = [item EXCEPT ![d] = ActivatedItem(@)]
  /\ UNCHANGED <<note, promo, approved, work, runs, space, loaded>>

ArchiveDomainKnowledge(d) ==
  /\ item[d].live /\ Tick
  /\ item' = [item EXCEPT ![d] = ArchivedItem(@)]
  /\ UNCHANGED <<note, promo, approved, work, runs, space, loaded>>

-----------------------------------------------------------------------------
(* The statements on ai_memory_notes, and the administrator's requests.    *)

InsertedNote(source, anchor, active, pinned) ==
  [live |-> TRUE, active |-> active, archived |-> FALSE, pinned |-> pinned,
   source |-> source, anchor |-> anchor, stamp |-> clock']

(* validate_ai_memory_source_refs: a manual note names no meeting.         *)
SourceRefs(source, anchor) == source = "manual" => anchor = NoMeeting

CreateAiMemory(n, source, anchor, active, pinned) ==
  /\ ~note[n].live /\ SourceRefs(source, anchor) /\ Tick
  /\ note' = [note EXCEPT ![n] = InsertedNote(source, anchor, active, pinned)]
  /\ UNCHANGED <<item, promo, approved, work, runs, space, loaded>>

(* active and pinned left out of the request mean TRUE and FALSE.          *)
UpdatedNote(x, active, pinned) ==
  [x EXCEPT !.active = active, !.pinned = pinned, !.stamp = clock']

UpdateAiMemory(n, active, pinned) ==
  /\ note[n].live /\ ~note[n].archived /\ Tick
  /\ note' = [note EXCEPT ![n] = UpdatedNote(@, active, pinned)]
  /\ UNCHANGED <<item, promo, approved, work, runs, space, loaded>>

PinnedNote(x, pinned) == [x EXCEPT !.pinned = pinned, !.stamp = clock']

PinAiMemory(n, pinned) ==
  /\ note[n].live /\ ~note[n].archived /\ Tick
  /\ note' = [note EXCEPT ![n] = PinnedNote(@, pinned)]
  /\ UNCHANGED <<item, promo, approved, work, runs, space, loaded>>

ArchivedNote(x) ==
  [x EXCEPT !.active = FALSE, !.archived = TRUE, !.stamp = IF x.archived THEN @ ELSE clock']

ArchiveAiMemory(n) ==
  /\ note[n].live /\ Tick
  /\ note' = [note EXCEPT ![n] = ArchivedNote(@)]
  /\ UNCHANGED <<item, promo, approved, work, runs, space, loaded>>

(* A promotion reads the note, then inserts an item; the note may be       *)
(* archived in between.                                                    *)
PromoteRead(n, text) ==
  /\ promo = None /\ note[n].live /\ ~note[n].archived
  /\ promo' = text
  /\ UNCHANGED <<item, note, clock, approved, work, runs, space, loaded>>

PromoteInsert(d) ==
  /\ promo # None /\ ~item[d].live /\ Tick
  /\ item' = [item EXCEPT ![d] = InsertedItem(promo, FALSE, FALSE)]
  /\ promo' = None
  /\ UNCHANGED <<note, approved, work, runs, space, loaded>>

-----------------------------------------------------------------------------
(* What a summary is given.                                                *)

(* LIST_DOMAIN_KNOWLEDGE_FOR_SUMMARY_CONTEXT_SQL                           *)
ItemRows ==
  LET rows == {d \in Item : item[d].live /\ item[d].active /\ ~item[d].archived /\ item[d].allow}
      Newer(d) == {e \in rows : item[e].stamp > item[d].stamp}
  IN {d \in rows : Cardinality(Newer(d)) < ListLimit}

(* summary_context_allowed_meeting_ids                                     *)
AllowedMeetings(m) == {m} \cup {x \in Meeting : Channel[x] = Channel[m]}

(* LIST_AI_MEMORY_NOTES_SQL with an allowlist of anchors and a limit       *)
NoteRows(anchors) ==
  LET rows == {n \in Note : note[n].live /\ ~note[n].archived /\ note[n].anchor \in anchors}
      Before(a, b) == IF a.pinned # b.pinned THEN a.pinned ELSE a.stamp > b.stamp
  IN {n \in rows : Cardinality({x \in rows : Before(note[x], note[n])}) < ListLimit}

EligibleNotes(m) ==
  {n \in Note : note[n].live /\ note[n].active /\ ~note[n].archived
                /\ note[n].anchor \in AllowedMeetings(m)}

(* A job starts, or starts again.  The loader reads the items ...          *)
LoadItems(m) ==
  /\ work[m].pc = "idle" /\ runs[m] < MaxRuns
  /\ runs' = [runs EXCEPT ![m] = @ + 1]
  /\ work' = [work EXCEPT ![m] = [Idle EXCEPT !.pc = "notes",
                 !.items = {<<d, item[d].version, item[d].text>> : d \in ItemRows}]]
  /\ UNCHANGED <<store, space, loaded>>

(* ... and then the notes, whose anchor it checks a second time.           *)
LoadNotes(m) ==
  LET allowed == AllowedMeetings(m)
      got == {n \in NoteRows(allowed) : note[n].anchor \in allowed}
  IN /\ work[m].pc = "notes"
     /\ work' = [work EXCEPT ![m].pc = "context", ![m].notes = {<<n, note[n]>> : n \in got}]
     /\ loaded' = [loaded EXCEPT ![m] = [notes |-> got, eligible |-> EligibleNotes(m)]]
     /\ UNCHANGED <<store, runs, space>>

(* ContextRelevanceEvidence::matches_ai_memory: a note of another meeting  *)
(* never matches.  (A note without a meeting is not loaded.)               *)
MatchesAiMemory(m, x) == x.anchor = m

(* materialize_or_load_summary_context: a complete manifest is reused ...  *)
ReuseContext(m) ==
  /\ work[m].pc = "context" /\ manifest[m] # None /\ leak[m] # None
  /\ work' = [work EXCEPT ![m].pc = "extract", ![m].manifest = manifest[m]]
  /\ UNCHANGED <<store, runs, space, loaded>>

(* ... and one is made otherwise: the items the transcript mentions and    *)
(* the notes that match are written to the context files ...               *)
Materialise(m, mentioned) ==
  /\ work[m].pc = "context" /\ (manifest[m] = None \/ leak[m] = None)
  /\ LET ctx == [items |-> {i \in work[m].items : i[1] \in mentioned},
                 notes |-> {p[1] : p \in {q \in work[m].notes :
                             q[2].active /\ MatchesAiMemory(m, q[2])}}]
     IN /\ files' = [files EXCEPT ![m] = ctx]
        /\ work' = [work EXCEPT ![m].pc = "leak", ![m].manifest = ctx]
  /\ UNCHANGED <<store, runs, leak, manifest, loaded>>

(* ... then the bodies to compare the output with ...                      *)
WriteLeakBodies(m) ==
  /\ work[m].pc = "leak"
  /\ leak' = [leak EXCEPT ![m] = work[m].manifest]
  /\ work' = [work EXCEPT ![m].pc = "manifest"]
  /\ UNCHANGED <<store, runs, files, manifest, loaded>>

(* ... and last the manifest, which commits the context.                   *)
WriteManifest(m) ==
  /\ work[m].pc = "manifest"
  /\ manifest' = [manifest EXCEPT ![m] = work[m].manifest]
  /\ work' = [work EXCEPT ![m].pc = "extract"]
  /\ UNCHANGED <<store, runs, files, leak, loaded>>

-----------------------------------------------------------------------------
(* After the summary, candidates for new notes.                            *)

(* parse_ai_memory_extraction_response: a malformed answer is an error,    *)
(* and the summary completes without candidates.                           *)
ExtractionFails(m) ==
  /\ work[m].pc = "extract"
  /\ work' = [work EXCEPT ![m] = Idle]
  /\ UNCHANGED <<store, runs, space, loaded>>

(* persist_ai_memory_extraction_candidates: nothing is saved when the      *)
(* meeting has candidates that are not archived.                           *)
ExtractCandidates(m, texts) ==
  /\ work[m].pc = "extract"
  /\ work' = [work EXCEPT ![m] =
       IF \E n \in Note : /\ note[n].live /\ ~note[n].archived
                          /\ note[n].source = "ai_meeting_extraction" /\ note[n].anchor = m
       THEN Idle ELSE [Idle EXCEPT !.pc = "insert", !.queue = texts]]
  /\ UNCHANGED <<store, runs, space, loaded>>

(* Each candidate is inserted by itself, inactive; the primary key refuses *)
(* one that was proposed before.                                           *)
InsertCandidate(m, t) ==
  /\ work[m].pc = "insert" /\ t \in work[m].queue /\ Tick
  /\ note' = IF note[<<m, t>>].live THEN note
             ELSE [note EXCEPT ![<<m, t>>] =
                     InsertedNote("ai_meeting_extraction", m, FALSE, FALSE)]
  /\ work' = [work EXCEPT ![m].queue = @ \ {t}]
  /\ UNCHANGED <<item, promo, approved, runs, space, loaded>>

FinishSummary(m) ==
  /\ work[m].pc = "insert" /\ work[m].queue = {}
  /\ work' = [work EXCEPT ![m] = Idle]
  /\ UNCHANGED <<store, runs, space, loaded>>

(* The process stops, or the job loses its claim: the attempt ends where   *)
(* it is, and what it wrote stays.                                         *)
Abandon(m) ==
  /\ work[m].pc # "idle"
  /\ work' = [work EXCEPT ![m] = Idle]
  /\ UNCHANGED <<store, runs, space, loaded>>

Administer ==
  \/ \E d \in Item, t \in Text, active, allow \in BOOLEAN :
       CreateDomainKnowledge(d, t, active, allow)
  \/ \E d \in Item, t \in Text, active, allow \in {"keep", "true", "false"} :
       UpdateDomainKnowledge(d, t, active, allow)
  \/ \E d \in Item : ActivateDomainKnowledge(d) \/ ArchiveDomainKnowledge(d) \/ PromoteInsert(d)
  \/ \E n \in Manual, s \in {"manual", "ai_meeting_extraction"}, a \in Meeting \cup {NoMeeting},
       active, pinned \in BOOLEAN : CreateAiMemory(n, s, a, active, pinned)
  \/ \E n \in Note, active, pinned \in BOOLEAN : UpdateAiMemory(n, active, pinned)
  \/ \E n \in Note, pinned \in BOOLEAN : PinAiMemory(n, pinned)
  \/ \E n \in Note : ArchiveAiMemory(n)
  \/ \E n \in Note, t \in Text : PromoteRead(n, t)

Summarise ==
  \E m \in Meeting :
    \/ LoadItems(m) \/ LoadNotes(m) \/ ReuseContext(m)
    \/ \E mentioned \in SUBSET Item : Materialise(m, mentioned)
    \/ WriteLeakBodies(m) \/ WriteManifest(m)
    \/ ExtractionFails(m)
    \/ \E texts \in SUBSET Text : ExtractCandidates(m, texts)
    \/ \E t \in Text : InsertCandidate(m, t)
    \/ FinishSummary(m) \/ Abandon(m)

Next == Administer \/ Summarise

Spec == Init /\ [][Next]_vars

-----------------------------------------------------------------------------
(* No item reaches the context of a summary unless some administrator has  *)
(* asked for it to be shown in summaries: not by promotion, activation or  *)
(* an edit that leaves the approval out.                                   *)
ApprovedOnly ==
  \A m \in Meeting : files[m] # None => {i[1] : i \in files[m].items} \subseteq approved

(* What is loaded for a meeting's summary belongs to meetings of its own   *)
(* voice channel (the boundary load_summary_context keeps).                *)
LoadedWithinChannel ==
  \A m \in Meeting : \A n \in loaded[m].notes :
    note[n].anchor \in Meeting /\ Channel[note[n].anchor] = Channel[m]

(* A version names one text: two summaries given the same version of an    *)
(* item were given the same text (the manifests record only the version).  *)
VersionNamesText ==
  \A a, b \in Meeting : manifest[a] # None /\ manifest[b] # None =>
    \A i \in manifest[a].items, j \in manifest[b].items :
      i[1] = j[1] /\ i[2] = j[2] => i[3] = j[3]

(* A committed manifest describes the context files and the snapshot of    *)
(* protected bodies, wherever an attempt before it was cut off.            *)
ManifestComplete ==
  \A m \in Meeting : manifest[m] # None =>
    files[m] = manifest[m] /\ leak[m] = manifest[m]

(* Once committed, a meeting's context is kept by every later attempt,     *)
(* whatever is edited in the store.                                        *)
ManifestKeptStep ==
  \A m \in Meeting : manifest[m] # None => manifest'[m] = manifest[m]

ManifestKept == [][ManifestKeptStep]_vars

(* An archived note stays archived and inactive, also when a later attempt *)
(* of the job proposes the same note again.                                *)
ArchivedNoteFinalStep ==
  \A n \in Note : note[n].archived => note'[n].archived /\ ~note'[n].active

ArchivedNoteFinal == [][ArchivedNoteFinalStep]_vars

(* Stated by the comment on the candidate lists in load_summary_context:   *)
(* the limit applies to eligible records only.  An eligible note that is   *)
(* not loaded has as many eligible notes before it as the limit.           *)
LimitCountsEligible ==
  \A m \in Meeting :
    loaded[m].eligible \subseteq loaded[m].notes
    \/ Cardinality(loaded[m].eligible \cap loaded[m].notes) >= ListLimit

(* Stated by the comment on summary_context_allowed_meeting_ids: notes of  *)
(* the meetings of the same voice channel may be materialized.  An active  *)
(* note that was loaded is in the context.                                 *)
LoadedIsGiven ==
  \A m \in Meeting : work[m].pc = "leak" =>
    {p[1] : p \in {q \in work[m].notes : q[2].active}} \subseteq work[m].manifest.notes
=============================================================================
