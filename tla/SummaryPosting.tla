--------------------------- MODULE SummaryPosting ---------------------------
(***************************************************************************)
(* A summary on its way into Discord, and the status message beside it.    *)
(* The text is split into messages, posted one after the other in the      *)
(* report channel or in the thread of the status message, and only then    *)
(* the job is done; a failure in the middle posts everything again.  The   *)
(* status message is one message that everybody edits: the start and the   *)
(* stop of the recording and every attempt of the job, in the bot or in    *)
(* the standalone worker, without a lock over reading its id and writing.  *)
(*                                                                         *)
(* SummaryPipeline has the job with its leases and the meeting's status;   *)
(* here a job knows which attempt owns it.  A text is a sequence of        *)
(* characters.  Discord is external: a thread made from a message has the  *)
(* message's id, and a message has one thread at most.                     *)
(***************************************************************************)
EXTENDS Integers, FiniteSets, SequencesExt

CONSTANTS
  Texts,       \* the summaries the agent may write
  Limit,       \* DISCORD_MESSAGE_LIMIT
  InThread,    \* summary_in_status_thread
  Roles,       \* "bot", "worker": the processes that may run the job
  MaxRetries,  \* SUMMARY_MAX_RETRIES
  Attempts,    \* bound on the attempts of the job
  Overlap,     \* may one actor begin while the update of another is under way?
  Kinds,       \* the disturbances that may happen
  MaxFaults    \* bound on their number

LimitAssumption == Limit \in Nat /\ Limit >= 2
BoundAssumption == {MaxRetries, Attempts, MaxFaults} \subseteq Nat

VARIABLES
  att,     \* the attempts: [pc, role, text, parts, sent, target, refused, meta]
  job,     \* "queued", "running", "done", "failed"
  owner,   \* the attempt whose claim is the job's, 0 for none
  retries, \* retry_count
  upd,     \* the update of the status message each actor has under way: [phase, content, id]
  db,      \* the meeting's row: [status, thread], 0 for NULL
  shown,   \* Discord: the content of each message of the status, in the order of sending
  threads, \* Discord: the messages with a thread
  late,    \* has an earlier actor written the status once the job's last update had begun?
  faults

vars == <<att, job, owner, retries, upd, db, shown, threads, late, faults>>
discordVars == <<shown, threads>>
jobVars == <<job, owner, retries>>

Attempt == 1 .. Attempts
RecordStart == -2
RecordStop == -1
Recording == {RecordStart, RecordStop}
Report == 0

(***************************************************************************)
(* The text and its messages.                                              *)
(***************************************************************************)
CharWidth(c) == IF c = "emoji" THEN 2 ELSE 1
Utf16Len(s) == FoldLeft(LAMBDA n, c : n + CharWidth(c), 0, s)
Visible(c) == c # "newline"
Blank(s) == \A i \in DOMAIN s : ~Visible(s[i])

Extended(acc, s) == [acc EXCEPT ![Len(acc)] = @ \o s]

Lines(text) ==
  FoldLeft(LAMBDA acc, c : IF acc = <<>> \/ Last(Last(acc)) = "newline" THEN Append(acc, <<c>>)
                           ELSE Extended(acc, <<c>>),
           <<>>, text)

(* Mutant: the width of the next character is forgotten.                   *)
MutSplitHard(line) ==
  FoldLeft(LAMBDA acc, c : IF acc = <<>> THEN <<<<c>>>>
                           ELSE IF Utf16Len(Last(acc)) >= Limit THEN Append(acc, <<c>>)
                           ELSE Extended(acc, <<c>>),
           <<>>, line)

SplitHard(line) ==
  FoldLeft(LAMBDA acc, c : IF acc = <<>> THEN <<<<c>>>>
                           ELSE IF Utf16Len(Last(acc)) + CharWidth(c) > Limit THEN Append(acc, <<c>>)
                           ELSE Extended(acc, <<c>>),
           <<>>, line)

PushSegment(acc, segment) ==
  IF acc = <<>> THEN <<segment>>
  ELSE IF Utf16Len(Last(acc)) + Utf16Len(segment) <= Limit THEN Extended(acc, segment)
  ELSE Append(acc, segment)

SplitDiscordMessage(text) ==
  LET Segments(line) == IF Utf16Len(line) <= Limit THEN <<line>> ELSE SplitHard(line)
  IN FoldLeft(PushSegment, <<>>, FlattenSeq([i \in DOMAIN Lines(text) |-> Segments(Lines(text)[i])]))

(* The bot says so when there is nothing to say, the worker does not.  A   *)
(* header with the channel's name goes before.                             *)
Header == <<"header">>
NothingToSay == <<"nothing">>
Url == <<"url">>
Chunks(role, text) ==
  LET chunks == SplitDiscordMessage(text)
  IN IF role = "bot" /\ (\A i \in DOMAIN chunks : Blank(chunks[i])) THEN <<NothingToSay>> ELSE chunks

(***************************************************************************)
(* What may go wrong.                                                      *)
(***************************************************************************)
Fault(kind) == kind \in Kinds /\ faults < MaxFaults /\ faults' = faults + 1
NoFault == UNCHANGED faults

(***************************************************************************)
(* The status message.  update_status_message of the bot and               *)
(* upsert_summary_completed_status_message of the worker.                  *)
(***************************************************************************)
NoUpdate == [phase |-> "none", content |-> "none", id |-> 0]
Busy(a) == upd[a].phase \in {"read", "edit", "send", "save"}
IsWorker(a) == a \in Attempt /\ att[a].role = "worker"
Begun(content) == [phase |-> "read", content |-> content, id |-> 0]

Concluding == owner # 0 /\ (upd[owner].content = "completed" \/ job \in {"done", "failed"})
Writes(a) == late' = (late \/ (Concluding /\ a # owner))
Ended(a) == upd' = [upd EXCEPT ![a].phase = "ended"]

StatusMessageMetadata(a) ==
  /\ upd[a].phase = "read"
  /\ upd' = [upd EXCEPT ![a].id = db.status, ![a].phase = IF db.status = 0 THEN "send" ELSE "edit"]
  /\ UNCHANGED <<att, jobVars, db, discordVars, late, faults>>

(* A message that is gone, or an edit that is refused: the bot sends a new *)
(* one, the worker gives up.                                               *)
Editable(a) == shown[upd[a].id] # "deleted"
EditStatus(a) ==
  /\ upd[a].phase = "edit" /\ ~IsWorker(a)
  /\ \/ Editable(a) /\ NoFault /\ shown' = [shown EXCEPT ![upd[a].id] = upd[a].content] /\ Ended(a)
     \/ /\ IF Editable(a) THEN Fault("edit") ELSE NoFault
        /\ upd' = [upd EXCEPT ![a].phase = "send"] /\ UNCHANGED shown
  /\ Writes(a)
  /\ UNCHANGED <<att, jobVars, db, threads>>

WorkerEditStatus(a) ==
  /\ upd[a].phase = "edit" /\ IsWorker(a)
  /\ \/ /\ Editable(a) /\ NoFault /\ shown' = [shown EXCEPT ![upd[a].id] = upd[a].content]
        /\ upd' = [upd EXCEPT ![a].phase = "save"]
     \/ /\ IF Editable(a) THEN Fault("edit") ELSE NoFault
        /\ Ended(a) /\ UNCHANGED shown
  /\ Writes(a)
  /\ UNCHANGED <<att, jobVars, db, threads>>

SendStatus(a) ==
  /\ upd[a].phase = "send"
  /\ shown' = Append(shown, upd[a].content)
  /\ upd' = [upd EXCEPT ![a].phase = "save", ![a].id = Len(shown) + 1]
  /\ Writes(a)
  /\ UNCHANGED <<att, jobVars, db, threads, faults>>

SendFails(a) ==
  /\ upd[a].phase = "send" /\ Fault("send") /\ Ended(a)
  /\ UNCHANGED <<att, jobVars, db, discordVars, late>>

(* The id is saved, or the failure of that is reported and logged.         *)
SetStatusMessage(a) ==
  /\ upd[a].phase = "save" /\ Ended(a)
  /\ \/ db' = [db EXCEPT !.status = upd[a].id] /\ NoFault
     \/ Fault("save") /\ UNCHANGED db
  /\ Writes(a)
  /\ UNCHANGED <<att, jobVars, discordVars>>

UpdateStep(a) ==
  \/ StatusMessageMetadata(a) \/ EditStatus(a) \/ WorkerEditStatus(a)
  \/ SendStatus(a) \/ SendFails(a) \/ SetStatusMessage(a)

(* The start and the stop of the recording each update the status once,    *)
(* after they have given up their locks.                                   *)
RecordingUpdate(a) ==
  /\ upd[a].phase = "none"
  /\ Overlap \/ a = RecordStart \/ upd[RecordStart].phase = "ended"
  /\ upd' = [upd EXCEPT ![a] = Begun(IF a = RecordStart THEN "started" ELSE "stopped")]
  /\ UNCHANGED <<att, jobVars, db, discordVars, late, faults>>

(***************************************************************************)
(* The attempts.  A job whose attempt died, gave up, or let its lease run  *)
(* out is claimed again.                                                   *)
(***************************************************************************)
Unclaimed == [pc |-> "idle", role |-> "none", text |-> <<>>, parts |-> <<>>, sent |-> <<>>,
              target |-> Report, refused |-> FALSE, meta |-> [status |-> 0, thread |-> 0]]
At(p, pc) == att[p].pc = pc /\ ~Busy(p)
Owns(p) == owner = p /\ job = "running"
Goes(p, pc) == att' = [att EXCEPT ![p].pc = pc]

Abandoned == job = "running" /\ att[owner].pc \in {"dead", "over"}

(* The bot says that it begins; the worker does not.                       *)
Claim(p, role) ==
  /\ att[p].pc = "idle" /\ (\A q \in 1 .. p - 1 : att[q].pc # "idle")
  /\ Overlap \/ upd[RecordStop].phase = "ended"
  /\ \/ (job = "queued" \/ Abandoned) /\ NoFault
     \/ job = "running" /\ ~Abandoned /\ Fault("steal")
  /\ job' = "running" /\ owner' = p
  /\ att' = [att EXCEPT ![p].pc = "summarize", ![p].role = role]
  /\ upd' = IF role = "bot" THEN [upd EXCEPT ![p] = Begun("summarizing")] ELSE upd
  /\ UNCHANGED <<retries, db, discordVars, late>>

Summarize(p, text) ==
  /\ At(p, "summarize") /\ att' = [att EXCEPT ![p].pc = "post", ![p].text = text]
  /\ UNCHANGED <<jobVars, upd, db, discordVars, late, faults>>

(* queue.retry, which leaves the job alone if the claim is no longer its.  *)
Exhausted == retries >= MaxRetries
RetryJob(p) ==
  IF Owns(p)
  THEN /\ job' = IF Exhausted THEN "failed" ELSE "queued"
       /\ retries' = IF Exhausted THEN retries ELSE retries + 1
  ELSE UNCHANGED <<job, retries>>

(* Only the last failure is shown, and only the bot shows it.              *)
SummarizeFails(p) ==
  /\ At(p, "summarize") /\ Fault("summarize") /\ RetryJob(p) /\ Goes(p, "over")
  /\ upd' = IF Owns(p) /\ Exhausted /\ ~IsWorker(p) THEN [upd EXCEPT ![p] = Begun("failed")] ELSE upd
  /\ UNCHANGED <<owner, db, discordVars, late>>

(* refresh_summary_job_ownership, by the bot only.                         *)
Refreshed(p) == IsWorker(p) \/ Owns(p)
Loses(p, pc) ==
  /\ At(p, pc) /\ ~Refreshed(p) /\ Goes(p, "over")
  /\ UNCHANGED <<jobVars, upd, db, discordVars, late, faults>>

BeginPosting(p) ==
  /\ At(p, "post") /\ Refreshed(p)
  /\ LET chunks == Chunks(att[p].role, att[p].text)
     IN \/ NoFault /\ att' = [att EXCEPT ![p].pc = "channel", ![p].parts = <<Header>> \o chunks]
        \/ ~IsWorker(p) /\ Fault("load") /\ att' = [att EXCEPT ![p].pc = "channel", ![p].parts = chunks]
  /\ UNCHANGED <<jobVars, upd, db, discordVars, late>>

SummaryPostChannel(p) ==
  /\ At(p, "channel")
  /\ att' = [att EXCEPT ![p].meta = db,
                        ![p].pc = IF InThread /\ db.status # 0 THEN "validate" ELSE "parts"]
  /\ UNCHANGED <<jobVars, upd, db, discordVars, late, faults>>

(***************************************************************************)
(* ensure_summary_thread: the thread that was saved, the one the message   *)
(* has, a new one, or the one somebody else made in the meantime.          *)
(***************************************************************************)
Refused(p, pc) == att' = [att EXCEPT ![p].pc = pc, ![p].refused = TRUE]
UsesThread(p, t) == att' = [att EXCEPT ![p].target = t, ![p].pc = "savethread"]

ValidateSaved(p) ==
  /\ At(p, "validate")
  /\ \/ att[p].meta.thread # 0 /\ NoFault /\ UsesThread(p, att[p].meta.thread)
     \/ att[p].meta.thread # 0 /\ Fault("thread") /\ Refused(p, "fetch")
     \/ att[p].meta.thread = 0 /\ NoFault /\ Goes(p, "fetch")
  /\ UNCHANGED <<jobVars, upd, db, discordVars, late>>

HasThread(p) == shown[att[p].meta.status] # "deleted" /\ att[p].meta.status \in threads

FetchThread(p) ==
  /\ At(p, "fetch")
  /\ \/ HasThread(p) /\ NoFault /\ UsesThread(p, att[p].meta.status)
     \/ HasThread(p) /\ Fault("thread") /\ Refused(p, "create")
     \/ ~HasThread(p) /\ NoFault /\ Goes(p, "create")
  /\ UNCHANGED <<jobVars, upd, db, discordVars, late>>

CreateThread(p) ==
  /\ At(p, "create")
  /\ IF shown[att[p].meta.status] # "deleted" /\ att[p].meta.status \notin threads
     THEN \/ /\ threads' = threads \union {att[p].meta.status}
             /\ UsesThread(p, att[p].meta.status) /\ NoFault
          \/ Fault("thread") /\ Refused(p, "refetch") /\ UNCHANGED threads
     ELSE NoFault /\ Goes(p, "refetch") /\ UNCHANGED threads
  /\ UNCHANGED <<jobVars, upd, db, shown, late>>

RefetchThread(p) ==
  /\ At(p, "refetch")
  /\ \/ HasThread(p) /\ NoFault /\ UsesThread(p, att[p].meta.status)
     \/ HasThread(p) /\ Fault("thread") /\ Refused(p, "parts")
     \/ ~HasThread(p) /\ NoFault /\ Goes(p, "parts")
  /\ UNCHANGED <<jobVars, upd, db, discordVars, late>>

(* The thread is used even if its id cannot be saved.                      *)
SetSummaryThreadId(p) ==
  /\ At(p, "savethread") /\ Goes(p, "parts")
  /\ \/ db' = [db EXCEPT !.thread = att[p].target] /\ NoFault
     \/ Fault("save") /\ UNCHANGED db
  /\ UNCHANGED <<jobVars, upd, discordVars, late>>

(***************************************************************************)
(* post_summary_to_report_channel and what follows it.                     *)
(***************************************************************************)
PostPart(p) ==
  /\ At(p, "parts") /\ att[p].parts # <<>>
  /\ att' = [att EXCEPT ![p].parts = Tail(@),
                        ![p].sent = IF Blank(Head(att[p].parts)) THEN @ ELSE Append(@, Head(att[p].parts))]
  /\ UNCHANGED <<jobVars, upd, db, discordVars, late, faults>>

AllPosted(p) ==
  /\ At(p, "parts") /\ att[p].parts = <<>> /\ Goes(p, "posted")
  /\ UNCHANGED <<jobVars, upd, db, discordVars, late, faults>>

(* The bot puts the job back if the claim is still its, and shows the      *)
(* failure in either case; the worker leaves the job to the end of its     *)
(* lease.                                                                  *)
PostFails(p) ==
  At(p, "parts") /\ att[p].parts # <<>> /\ ~Blank(Head(att[p].parts)) /\ Fault("post") /\ Goes(p, "over")
PostPartFails(p) ==
  /\ PostFails(p) /\ ~IsWorker(p) /\ RetryJob(p)
  /\ upd' = [upd EXCEPT ![p] = Begun("failed")]
  /\ UNCHANGED <<owner, db, discordVars, late>>
WorkerPostPartFails(p) ==
  /\ PostFails(p) /\ IsWorker(p)
  /\ UNCHANGED <<jobVars, upd, db, discordVars, late>>

(* The link is best effort.                                                *)
PostUrl(p) ==
  /\ At(p, "posted") /\ Refreshed(p)
  /\ \/ att' = [att EXCEPT ![p].pc = "url", ![p].sent = Append(@, Url)] /\ NoFault
     \/ Goes(p, "url") /\ Fault("post")
  /\ UNCHANGED <<jobVars, upd, db, discordVars, late>>

UpdateCompleted(p) ==
  /\ At(p, "url") /\ Refreshed(p) /\ Goes(p, "complete")
  /\ upd' = [upd EXCEPT ![p] = Begun("completed")]
  /\ UNCHANGED <<jobVars, db, discordVars, late, faults>>

Complete(p) ==
  /\ At(p, "complete") /\ Goes(p, "over")
  /\ job' = IF Owns(p) THEN "done" ELSE job
  /\ UNCHANGED <<owner, retries, upd, db, discordVars, late, faults>>

(* The process of an attempt dies, with it the updates of the bot.         *)
Crash(p) ==
  /\ att[p].pc \notin {"idle", "over", "dead"} /\ Fault("crash") /\ Goes(p, "dead")
  /\ upd' = [a \in DOMAIN upd |->
               IF Busy(a) /\ (a = p \/ (~IsWorker(p) /\ ~IsWorker(a))) THEN [upd[a] EXCEPT !.phase = "ended"]
               ELSE upd[a]]
  /\ UNCHANGED <<jobVars, db, discordVars, late>>

(* Somebody deletes a status message that does not tell the end.           *)
DeleteStatus(m) ==
  /\ shown[m] \in {"started", "stopped", "summarizing"} /\ Fault("delete")
  /\ shown' = [shown EXCEPT ![m] = "deleted"]
  /\ UNCHANGED <<att, jobVars, upd, db, threads, late>>

Init ==
  /\ att = [p \in Attempt |-> Unclaimed]
  /\ job = "queued" /\ owner = 0 /\ retries = 0
  /\ upd = [a \in Recording \union Attempt |-> NoUpdate]
  /\ db = [status |-> 0, thread |-> 0]
  /\ shown = <<>> /\ threads = {} /\ late = FALSE /\ faults = 0

Next ==
  \/ \E a \in Recording : RecordingUpdate(a)
  \/ \E a \in Recording \union Attempt : UpdateStep(a)
  \/ \E m \in DOMAIN shown : DeleteStatus(m)
  \/ \E p \in Attempt :
       \/ \E role \in Roles : Claim(p, role)
       \/ \E text \in Texts : Summarize(p, text)
       \/ SummarizeFails(p) \/ (\E pc \in {"post", "posted", "url"} : Loses(p, pc))
       \/ BeginPosting(p) \/ SummaryPostChannel(p)
       \/ ValidateSaved(p) \/ FetchThread(p) \/ CreateThread(p) \/ RefetchThread(p) \/ SetSummaryThreadId(p)
       \/ PostPart(p) \/ AllPosted(p) \/ PostPartFails(p) \/ WorkerPostPartFails(p)
       \/ PostUrl(p) \/ UpdateCompleted(p) \/ Complete(p) \/ Crash(p)

Spec == Init /\ [][Next]_vars

(***************************************************************************)
(* Properties.                                                             *)
(***************************************************************************)
(* A job is done only when an attempt has posted the whole of its text:    *)
(* every visible character once and in order, in messages Discord accepts, *)
(* in one channel, and the bot never posts nothing at all.  (split_discord *)
(* _message, the blank parts that are left out, and a retry that begins    *)
(* again.)                                                                 *)
PostedWhole ==
  \A p \in Attempt : job = "done" /\ owner = p =>
    LET body == SelectSeq(FlattenSeq(att[p].sent), LAMBDA c : c \notin {"header", "nothing", "url", "newline"})
    IN /\ body = SelectSeq(att[p].text, Visible)
       /\ \A i \in DOMAIN att[p].sent : Utf16Len(att[p].sent[i]) \in 1 .. Limit
       /\ att[p].role = "bot" /\ Blank(att[p].text) => NothingToSay \in ToSet(att[p].sent)

(* The summary's attempts do not scatter over several threads, although    *)
(* two may look for the thread at once, one may die between making the     *)
(* thread and saving its id or fail to save it, or, once the id is saved,  *)
(* the status message may be replaced.  (A status message that is replaced *)
(* when the id of its thread was not saved gets a thread of its own.)      *)
OneThread == Cardinality(threads) <= 1

(* An attempt posts beside the thread of its status message only if        *)
(* Discord refused a call: a thread that somebody else made between its    *)
(* lookup and its own try to make one is used.                             *)
ThreadUsed ==
  \A p \in Attempt :
    LET a == att[p]
    IN a.pc = "parts" /\ ~a.refused /\ a.meta.status \in threads /\ shown[a.meta.status] # "deleted" /\ InThread
       => a.target # Report

Quiet == job \in {"done", "failed"} /\ \A a \in DOMAIN upd : ~Busy(a) /\ (a \in Recording => upd[a].phase = "ended")
Outcome == IF job = "done" THEN "completed" ELSE "failed"

(* When nothing is under way any more, the status message the meeting      *)
(* knows shows how the job ended, although it was deleted or could not be  *)
(* edited before; unless an update that began earlier came after the last. *)
StatusTells == Quiet /\ ~late => db.status # 0 /\ shown[db.status] = Outcome

(* The same of a failed job, whoever came late: the bot updates the status *)
(* message "so users see the failure" (run_summary_and_notify).            *)
FailureShown == Quiet /\ job = "failed" => db.status # 0 /\ shown[db.status] = "failed"
=============================================================================
