----------------------------- MODULE MCSummary ------------------------------
(***************************************************************************)
(* From the end of a recording to its summary in the channel, for TLC: the *)
(* job, its meeting and the stages (SummaryPipeline, which implements      *)
(* JobQueue), the posting of the result (SummaryPosting), and the records  *)
(* a summary is made from, leaves and is charged by (KnowledgeBase,        *)
(* SummaryTemplates, PersonAliases, TranscriptFeedback, UsageLedger). A    *)
(* behaviour is one of a single instance, named by part; the others rest   *)
(* in their initial state, so that the state spaces add up and do not      *)
(* multiply.                                                               *)
(***************************************************************************)
EXTENDS SummaryPipeline, Sequences

CONSTANTS
  None, NoMeeting, Nobody

VARIABLES
  part,
  att, jobPosting, owner, retries, upd, db, shown, threads, late, faultsPosting,
  item, note, clock, promo, work, runs, files, leak, manifest, approved, loaded,
  row, stmt, edits, refused,
  rowAliases, names,
  day, tx, rowsFeedback, status,
  now, stage, seconds, task, runsUsage, segments, heard, most, counted, downloads,
  pendingUsage, events, decision, faultsUsage

(* Texts of up to five characters, some of them two UTF-16 units long.     *)
AllTexts == UNION {[1 .. n -> {"letter", "emoji", "newline"}] : n \in 0 .. 5}
SomeTexts == {<<"letter", "newline", "emoji", "emoji">>, <<"newline">>}
OneText == {<<"letter">>}

(* What a member may send as feedback: anything, or a few bodies of which  *)
(* one names an id that does not exist and one is no feedback.             *)
FeedbackBody(types, givens, targets, known) ==
  [type : types, given : givens, target : targets, known : known, note : {"n1"}]
AllBodies ==
  FeedbackBody({"mistranscription", "speaker", "term", "person_alias", "domain_knowledge", "ai_memory"},
               SUBSET {"text", "speaker", "term_type"}, {"none", "knowledge", "memory", "both"}, BOOLEAN)
SomeBodies ==
  FeedbackBody({"term"}, {{"term_type"}}, {"none", "knowledge"}, {TRUE})
    \cup FeedbackBody({"ai_memory"}, {{}}, {"none", "memory"}, BOOLEAN)

(* A plan that allows one unit of everything that is metered.              *)
OneOfEach ==
  [metric \in {"recording_minutes", "asr_seconds", "summary_runs", "debug_downloads"} |-> 1]

(* Every text of up to five characters, through one attempt of either    *)
(* process.                                                              *)
Splitting == INSTANCE SummaryPosting WITH
  Texts <- AllTexts, Limit <- 3, InThread <- TRUE, Roles <- {"bot", "worker"},
  MaxRetries <- 1, Attempts <- 1, Overlap <- FALSE, Kinds <- {"edit", "delete"},
  MaxFaults <- 1,
  job <- jobPosting, faults <- faultsPosting

(* Two attempts, with failing sends and threads, a crash or a stolen     *)
(* claim between any two steps.                                          *)
Retrying == INSTANCE SummaryPosting WITH
  Texts <- SomeTexts, Limit <- 3, InThread <- TRUE, Roles <- {"bot", "worker"},
  MaxRetries <- 1, Attempts <- 2, Overlap <- FALSE,
  Kinds <- {"post", "summarize", "crash", "steal", "thread", "send", "load", "save"},
  MaxFaults <- 2,
  job <- jobPosting, faults <- faultsPosting

(* The status message under updates that overlap.                        *)
Updates == INSTANCE SummaryPosting WITH
  Texts <- OneText, Limit <- 3, InThread <- TRUE, Roles <- {"bot"}, MaxRetries <- 1,
  Attempts <- 2, Overlap <- TRUE, Kinds <- {"post", "delete", "edit"}, MaxFaults <- 1,
  job <- jobPosting, faults <- faultsPosting

(* The same of a job without retries, which ends failed.                 *)
Failing == INSTANCE SummaryPosting WITH
  Texts <- OneText, Limit <- 3, InThread <- FALSE, Roles <- {"bot"}, MaxRetries <- 0,
  Attempts <- 1, Overlap <- TRUE, Kinds <- {"post", "summarize", "delete", "edit"},
  MaxFaults <- 2,
  job <- jobPosting, faults <- faultsPosting

(* A memory item that is edited, promoted and archived while two         *)
(* meetings of one channel read it.                                      *)
Items == INSTANCE KnowledgeBase WITH
  Item <- {"d1"}, Manual <- {}, Meeting <- {"m1", "m2"},
  Channel <- [m \in {"m1", "m2"} |-> "vc1"], Text <- {"t1", "t2"}, NoMeeting <- NoMeeting,
  None <- None, ListLimit <- 1, MaxClock <- 2, MaxRuns <- 1

(* A note by hand and meetings of two channels.                          *)
Channels == INSTANCE KnowledgeBase WITH
  Item <- {}, Manual <- {<<"hand", "n1">>}, Meeting <- {"m1", "m2"},
  Channel <- [m \in {"m1", "m2"} |-> m], Text <- {"t1"}, NoMeeting <- NoMeeting,
  None <- None, ListLimit <- 2, MaxClock <- 2, MaxRuns <- 1

(* A summary that runs twice while its knowledge changes and notes are   *)
(* promoted.                                                             *)
Runs == INSTANCE KnowledgeBase WITH
  Item <- {"d1"}, Manual <- {<<"hand", "n1">>}, Meeting <- {"m1"},
  Channel <- [m \in {"m1"} |-> "vc1"], Text <- {"t1"}, NoMeeting <- NoMeeting,
  None <- None, ListLimit <- 1, MaxClock <- 3, MaxRuns <- 2

(* Two templates and two clients whose statements interleave.            *)
Templates == INSTANCE SummaryTemplates WITH
  Template <- {"a", "b"}, Client <- {"c1", "c2"}, Text <- {"x", "y"}, MaxEdits <- 4

(* Two proposals of one meeting.                                         *)
Proposed == INSTANCE PersonAliases WITH
  Identity <- {"i1", "i2"}, Manual <- {}, Meeting <- {"m1"},
  Channel <- [m \in {"m1"} |-> "c1"], NoMeeting <- NoMeeting, Nobody <- Nobody,
  row <- rowAliases

(* A proposal of two meetings of one channel and an alias written by     *)
(* hand.                                                                 *)
ByHand == INSTANCE PersonAliases WITH
  Identity <- {"i1"}, Manual <- {"a1"}, Meeting <- {"m1", "m2"},
  Channel <- [m \in {"m1", "m2"} |-> "c1"], NoMeeting <- NoMeeting, Nobody <- Nobody,
  row <- rowAliases

(* Two requests of one user on two days, one of which may be a retry of  *)
(* the other.                                                            *)
Feedback == INSTANCE TranscriptFeedback WITH
  Request <- {"r1", "r2"}, User <- {"u1"}, Note <- {"n1"}, Body <- SomeBodies,
  DayQuota <- 1, LastDay <- 1, Nobody <- Nobody,
  rows <- rowsFeedback

(* Every body of a request, well formed or not.                          *)
Shapes == INSTANCE TranscriptFeedback WITH
  Request <- {"r1"}, User <- {"u1"}, Note <- {"n1"}, Body <- AllBodies, DayQuota <- 1,
  LastDay <- 0, Nobody <- Nobody,
  rows <- rowsFeedback

(* Two meetings and repeated runs, one failed statement.                 *)
Usage == INSTANCE UsageLedger WITH
  Meeting <- {"m1", "m2"}, User <- {}, GuildOf <- [m \in {"m1", "m2"} |-> "g1"],
  DebugGuild <- "g1", Durations <- {3}, Heard <- {2, 4}, MinuteLength <- 2,
  DedupeWindow <- 2, RecentWindow <- 1, Policy <- OneOfEach, MaxTime <- 2, MaxRuns <- 2,
  MaxDownloads <- 0, MaxFaults <- 1,
  runs <- runsUsage, pending <- pendingUsage, faults <- faultsUsage

(* Downloads of one user in two windows of time, beside a meeting, one   *)
(* failed statement.                                                     *)
Downloads == INSTANCE UsageLedger WITH
  Meeting <- {"m1"}, User <- {"u1"}, GuildOf <- [m \in {"m1"} |-> "g1"],
  DebugGuild <- "g1", Durations <- {3}, Heard <- {2}, MinuteLength <- 2, DedupeWindow <- 2,
  RecentWindow <- 1, Policy <- OneOfEach, MaxTime <- 3, MaxRuns <- 1, MaxDownloads <- 3,
  MaxFaults <- 1,
  runs <- runsUsage, pending <- pendingUsage, faults <- faultsUsage

(* Two meetings of one guild and one of another, whose runs complete     *)
(* further apart than the window.                                        *)
Windows == INSTANCE UsageLedger WITH
  Meeting <- {"m1", "m2", "m3"}, User <- {},
  GuildOf <- [m \in {"m1", "m2", "m3"} |-> IF m = "m3" THEN "g2" ELSE "g1"],
  DebugGuild <- "g1", Durations <- {1}, Heard <- {1}, MinuteLength <- 2, DedupeWindow <- 2,
  RecentWindow <- 1, Policy <- OneOfEach, MaxTime <- 3, MaxRuns <- 1, MaxDownloads <- 0,
  MaxFaults <- 0,
  runs <- runsUsage, pending <- pendingUsage, faults <- faultsUsage

ASSUME
  /\ Splitting!LimitAssumption /\ Splitting!BoundAssumption
  /\ Retrying!LimitAssumption /\ Retrying!BoundAssumption
  /\ Updates!LimitAssumption /\ Updates!BoundAssumption
  /\ Failing!LimitAssumption /\ Failing!BoundAssumption
  /\ Items!LimitAssumption
  /\ Channels!LimitAssumption
  /\ Runs!LimitAssumption
  /\ Templates!EditAssumption
  /\ Feedback!QuotaAssumption /\ Feedback!BodyAssumption
  /\ Shapes!QuotaAssumption /\ Shapes!BodyAssumption
  /\ Usage!PolicyAssumption /\ Usage!BoundAssumption
  /\ Downloads!PolicyAssumption /\ Downloads!BoundAssumption
  /\ Windows!PolicyAssumption /\ Windows!BoundAssumption

postingVars ==
  <<att, jobPosting, owner, retries, upd, db, shown, threads, late, faultsPosting>>
knowledgeVars ==
  <<item, note, clock, promo, work, runs, files, leak, manifest, approved, loaded>>
templatesVars ==
  <<row, stmt, edits, refused>>
aliasesVars ==
  <<rowAliases, names>>
feedbackVars ==
  <<day, tx, rowsFeedback, status>>
usageVars ==
  <<now, stage, seconds, task, runsUsage, segments, heard, most, counted, downloads,
    pendingUsage, events, decision, faultsUsage>>
SummaryVars == <<part, vars, postingVars, knowledgeVars, templatesVars, aliasesVars, feedbackVars, usageVars>>

SummaryInit ==
  /\ part \in {"pipeline", "splitting", "retrying", "updates", "failing", "items",
               "channels", "runs", "templates", "proposed", "by_hand", "feedback",
               "shapes", "usage", "downloads", "windows"}
  /\ Init /\ (part # "pipeline" => audio)
  /\ CASE part = "splitting" -> Splitting!Init
       [] part = "retrying" -> Retrying!Init
       [] part = "updates" -> Updates!Init
       [] OTHER -> Failing!Init
  /\ CASE part = "items" -> Items!Init
       [] part = "channels" -> Channels!Init
       [] OTHER -> Runs!Init
  /\ Templates!Init
  /\ IF part = "proposed" THEN Proposed!Init ELSE ByHand!Init
  /\ IF part = "feedback" THEN Feedback!Init ELSE Shapes!Init
  /\ CASE part = "usage" -> Usage!Init
       [] part = "downloads" -> Downloads!Init
       [] OTHER -> Windows!Init

SummaryNext ==
  /\ UNCHANGED part
  /\ \/ /\ part = "pipeline" /\ Next
        /\ UNCHANGED <<postingVars, knowledgeVars, templatesVars, aliasesVars,
             feedbackVars, usageVars>>
     \/ /\ \/ part = "splitting" /\ Splitting!Next
           \/ part = "retrying" /\ Retrying!Next
           \/ part = "updates" /\ Updates!Next
           \/ part = "failing" /\ Failing!Next
        /\ UNCHANGED <<vars, knowledgeVars, templatesVars, aliasesVars, feedbackVars,
             usageVars>>
     \/ /\ \/ part = "items" /\ Items!Next
           \/ part = "channels" /\ Channels!Next
           \/ part = "runs" /\ Runs!Next
        /\ UNCHANGED <<vars, postingVars, templatesVars, aliasesVars, feedbackVars,
             usageVars>>
     \/ /\ part = "templates" /\ Templates!Next
        /\ UNCHANGED <<vars, postingVars, knowledgeVars, aliasesVars, feedbackVars,
             usageVars>>
     \/ /\ \/ part = "proposed" /\ Proposed!Next
           \/ part = "by_hand" /\ ByHand!Next
        /\ UNCHANGED <<vars, postingVars, knowledgeVars, templatesVars, feedbackVars,
             usageVars>>
     \/ /\ \/ part = "feedback" /\ Feedback!Next
           \/ part = "shapes" /\ Shapes!Next
        /\ UNCHANGED <<vars, postingVars, knowledgeVars, templatesVars, aliasesVars,
             usageVars>>
     \/ /\ \/ part = "usage" /\ Usage!Next
           \/ part = "downloads" /\ Downloads!Next
           \/ part = "windows" /\ Windows!Next
        /\ UNCHANGED <<vars, postingVars, knowledgeVars, templatesVars, aliasesVars,
             feedbackVars>>

SummarySpec == SummaryInit /\ [][SummaryNext]_SummaryVars

(* The messages of a posted summary, put together, are the summary:        *)
(* nothing is cut at a surrogate pair, lost, swapped or sent twice by one  *)
(* attempt, though an earlier attempt ended in the middle; the status      *)
(* message has one thread, which the summary is posted into whenever it    *)
(* exists; and the status message tells the last state of the job.         *)
PostedWhole ==
  /\ part = "splitting" => Splitting!PostedWhole
  /\ part = "retrying"
       => Retrying!PostedWhole /\ Retrying!OneThread /\ Retrying!ThreadUsed
  /\ part = "updates" => Updates!OneThread /\ Updates!StatusTells
  /\ part = "failing" => Failing!StatusTells

(* A note handed to a summary was approved, belongs to the channel of the  *)
(* meeting and is named by the version of its text, and the manifest of a  *)
(* run names all that was handed over; every alias satisfies the checks of *)
(* its table; a user stays within the feedback quota of the day over       *)
(* concurrent requests and a retried request is stored once, and a body    *)
(* the handler lets through satisfies the checks of the table; and usage   *)
(* is counted once per meeting, run and download, and in full.             *)
RecordsSound ==
  /\ part = "items" => Items!ApprovedOnly /\ Items!VersionNamesText
  /\ part = "channels" => Channels!LoadedWithinChannel
  /\ part = "runs" => Runs!ApprovedOnly /\ Runs!ManifestComplete
  /\ part = "proposed" => Proposed!ChecksHold
  /\ part = "by_hand" => ByHand!ChecksHold
  /\ part = "feedback" => Feedback!QuotaKept /\ Feedback!StoredOnce
  /\ part = "shapes" => Shapes!ShapeImpliesChecks
  /\ part = "usage" => Usage!NeverOvercounted /\ Usage!FullyCounted
  /\ part = "downloads" => Downloads!NeverOvercounted

(* A later run keeps the manifest of an earlier one and revives no         *)
(* archived note; a proposal made again neither undoes a review of an      *)
(* alias nor brings the archived one of its names back; every change of a  *)
(* template has a version of its own, an archived template returns by      *)
(* activation alone and the active one goes only by a statement that says  *)
(* so; feedback is reviewed once; and an undisturbed observation of a      *)
(* guild says exactly whether its summaries of the last 30 days exceed the *)
(* quota.                                                                  *)
ReviewsStand ==
  [][/\ part = "runs" => Runs!ManifestKeptStep /\ Runs!ArchivedNoteFinalStep
     /\ part = "templates"
          => Templates!VersionPerChangeStep /\ Templates!BackByActivationStep /\
             Templates!ActiveKeptStep
     /\ part = "proposed" => Proposed!ReviewStandsStep /\ Proposed!ArchivedFinalStep
     /\ part = "by_hand" => ByHand!ReviewStandsStep /\ ByHand!ArchivedFinalStep
     /\ part = "feedback" => Feedback!ReviewedOnceStep
     /\ part = "usage" => Usage!ObservationExactStep
     /\ part = "windows" => Windows!ObservationExactStep]_SummaryVars
=============================================================================
