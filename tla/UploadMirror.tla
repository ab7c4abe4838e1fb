---------------------------- MODULE UploadMirror ----------------------------
(***************************************************************************)
(* The copy of a meeting's recording in the object store.  Every process   *)
(* has an upload queue with one worker thread; recording chunks and the    *)
(* speaker mapping are uploaded from memory, audio files from disk.  A     *)
(* reconciler uploads after a restart what is staged but not stored, and a *)
(* deletion of the meeting's prefix cancels what is under way, through a   *)
(* tombstone in the store for the other processes.                         *)
(*                                                                         *)
(* All keys lie under the one prefix that is deleted.  Contents are        *)
(* versions: a later write has a greater number, 0 stands for "nothing".   *)
(***************************************************************************)
EXTENDS Naturals, Sequences, FiniteSets, FiniteSetsExt

CONSTANTS
  Proc,            \* processes with an upload queue
  Chunks,          \* names a recording chunk may be staged under
  Snapshots,       \* files rewritten while recording (ssrc_mapping.json)
  Files,           \* audio files built after recording
  QueueBound,      \* UPLOAD_QUEUE_BOUND
  MaxPending,      \* UPLOAD_MAX_PENDING_TASKS
  MaxInline,       \* UPLOAD_MAX_PENDING_BYTES, in payloads
  ReconcileLimit,  \* RECONCILE_PENDING_LIMIT
  MaxVersion,      \* bound on writes
  MaxGeneration,   \* bound on tasks of a process
  MaxFaults,       \* bound on failed requests that may be repeated
  MaxPermanent,    \* bound on requests the store refuses for good
  MaxBlind,        \* bound on tombstone listings of a worker that fail
  MaxCrashes,      \* bound on crashes and shutdowns
  Deleting         \* whether the recording is deleted

Key == Chunks \cup Snapshots \cup Files
Generation == 1 .. MaxGeneration

KindAssumption ==
  Chunks \cap Snapshots = {} /\ Chunks \cap Files = {} /\ Snapshots \cap Files = {}
BoundAssumption ==
  /\ {QueueBound, MaxPending, MaxInline, ReconcileLimit, MaxVersion, MaxGeneration}
       \subseteq Nat \ {0}
  /\ {MaxFaults, MaxPermanent, MaxBlind, MaxCrashes} \subseteq Nat
  /\ Deleting \in BOOLEAN

VARIABLES
  version,   \* versions written so far
  staged,    \* files in the local workspace
  remote,    \* objects in the store
  tombstone, \* the tombstone object
  q,         \* UploadQueue of a process
  receipt,   \* UploadReceiptStatus of a process's tasks
  wants,     \* version a task was to make durable
  rec,       \* reconciler of a process
  del,       \* delete_prefix of the meeting
  budget,    \* faults so far
  leftover,  \* history: versions of which an earlier staged copy could not be removed
  unlisted   \* history: keys stored by a worker whose last tombstone listing failed

history == <<leftover, unlisted>>
vars == <<version, staged, remote, tombstone, q, receipt, wants, rec, del, budget, leftover, unlisted>>

NoTask == [key |-> "none", gen |-> 0, inline |-> FALSE, content |-> 0]
NewQueue ==
  [state |-> "up", chan |-> <<>>, delayed |-> {}, task |-> NoTask, step |-> "idle",
   cancelled |-> FALSE, fresh |-> FALSE, blind |-> FALSE, pending |-> 0, inline |-> 0,
   outstanding |-> [k \in Key |-> {}], delivered |-> [k \in Key |-> 0], next |-> 1,
   files |-> [k \in Key |-> [snapshot |-> 0, gen |-> 0]], failed |-> {}]
NewReconciler == [pc |-> "scan", todo |-> {}, accepted |-> [k \in Key |-> 0], complete |-> TRUE]
Terminal == {"durable", "failed", "superseded", "cancelled", "shutdown"}

Init ==
  /\ version = 0
  /\ staged = [k \in Key |-> 0] /\ remote = [k \in Key |-> 0]
  /\ tombstone = FALSE
  /\ q = [p \in Proc |-> NewQueue]
  /\ receipt = [p \in Proc |-> [g \in Generation |-> "none"]]
  /\ wants = [p \in Proc |-> [g \in Generation |-> 0]]
  /\ rec = [p \in Proc |-> NewReconciler]
  /\ del = [pc |-> "none", keys |-> {}]
  /\ budget = [faults |-> 0, permanent |-> 0, blind |-> 0, crashes |-> 0]
  /\ leftover = {} /\ unlisted = {}

Spend(b, max) == budget[b] < max /\ budget' = [budget EXCEPT ![b] = @ + 1]
Fault == Spend("faults", MaxFaults)

-----------------------------------------------------------------------------
(* Enqueueing.                                                             *)

(* Why a task is turned away, if it is.                                    *)
Rejected(u, inline, limit) ==
  \/ u.cancelled
  \/ inline /\ u.inline >= MaxInline
  \/ u.pending >= limit
  \/ Len(u.chan) >= QueueBound

(* A task that found no room in the channel has used up a generation.      *)
Tried(u, k, inline, limit) ==
  IF ~u.cancelled /\ ~(inline /\ u.inline >= MaxInline) /\ u.pending < limit
  THEN [u EXCEPT !.next = @ + 1]
  ELSE u

Accepted(u, k, inline, content) ==
  [u EXCEPT !.chan = Append(@, [key |-> k, gen |-> u.next, inline |-> inline, content |-> content]),
            !.pending = @ + 1,
            !.inline = IF inline THEN @ + 1 ELSE @,
            !.outstanding[k] = @ \cup {u.next},
            !.next = @ + 1]

Track(p, wanted) ==
  /\ receipt' = [receipt EXCEPT ![p][q[p].next] = "queued"]
  /\ wants' = [wants EXCEPT ![p][q[p].next] = wanted]

Room(p) == q[p].state = "up" /\ q[p].next <= MaxGeneration

(* save_chunk: staged on disk, then queued.  A chunk that could not be     *)
(* queued is kept by the session and saved again, perhaps under another    *)
(* name; its earlier staging copy is removed first.                        *)
SaveChunk(p, k) ==
  /\ Room(p) /\ del.pc = "none" /\ version < MaxVersion
  /\ k \in Chunks /\ staged[k] = 0
  /\ version' = version + 1
  /\ staged' = [staged EXCEPT ![k] = version + 1]
  /\ IF Rejected(q[p], TRUE, MaxPending)
     THEN /\ q' = [q EXCEPT ![p] = [Tried(@, k, TRUE, MaxPending) EXCEPT !.failed = @ \cup {k}]]
          /\ UNCHANGED <<receipt, wants>>
     ELSE /\ q' = [q EXCEPT ![p] = Accepted(@, k, TRUE, version + 1)]
          /\ Track(p, version + 1)
  /\ UNCHANGED <<remote, tombstone, rec, del, budget, history>>

(* drop_superseded_staging: the earlier copy of the same audio goes; if it *)
(* cannot be removed it is forgotten and "duplicate may persist".          *)
SupersededStaging(k, again) ==
  \/ /\ staged' = [staged EXCEPT ![k] = 0, ![again] = staged[k]]
     /\ UNCHANGED <<budget, leftover>>
  \/ /\ again # k /\ Fault
     /\ staged' = [staged EXCEPT ![again] = staged[k]]
     /\ leftover' = leftover \cup {staged[k]}

RetryChunk(p, k, again) ==
  /\ Room(p) /\ k \in q[p].failed
  /\ again \in Chunks /\ (again = k \/ staged[again] = 0)
  /\ SupersededStaging(k, again)
  /\ LET u == [q[p] EXCEPT !.failed = @ \ {k}] IN
     IF Rejected(u, TRUE, MaxPending)
     THEN /\ q' = [q EXCEPT ![p] = [Tried(u, again, TRUE, MaxPending) EXCEPT !.failed = @ \cup {again}]]
          /\ UNCHANGED <<receipt, wants>>
     ELSE /\ q' = [q EXCEPT ![p] = Accepted(u, again, TRUE, staged[k])]
          /\ Track(p, staged[k])
  /\ UNCHANGED <<version, remote, tombstone, rec, del, unlisted>>

(* put_object_bytes: a newer state of a file that was uploaded before.     *)
PutSnapshot(p, k) ==
  /\ Room(p) /\ del.pc = "none" /\ version < MaxVersion
  /\ k \in Snapshots
  /\ version' = version + 1
  /\ staged' = [staged EXCEPT ![k] = version + 1]
  /\ IF Rejected(q[p], TRUE, MaxPending)
     THEN q' = [q EXCEPT ![p] = Tried(@, k, TRUE, MaxPending)] /\ UNCHANGED <<receipt, wants>>
     ELSE q' = [q EXCEPT ![p] = Accepted(@, k, TRUE, version + 1)] /\ Track(p, version + 1)
  /\ UNCHANGED <<remote, tombstone, rec, del, budget, history>>

BuildFile(k) ==
  /\ k \in Files /\ version < MaxVersion
  /\ version' = version + 1
  /\ staged' = [staged EXCEPT ![k] = version + 1]
  /\ UNCHANGED <<remote, tombstone, q, receipt, wants, rec, del, budget, history>>

(* The receipt of an unchanged file is handed out again.                   *)
Reusable(p, k) ==
  LET cached == q[p].files[k] IN
  /\ cached.gen # 0 /\ cached.snapshot = staged[k]
  /\ receipt[p][cached.gen] \in {"queued", "retrying", "durable"}

(* upload_file_with_receipt; what the caller asked for is made durable by  *)
(* the receipt it gets.                                                    *)
UploadFile(p, k) ==
  /\ Room(p) /\ k \in Files /\ staged[k] # 0
  /\ \/ /\ Reusable(p, k)
        /\ wants' = [wants EXCEPT ![p][q[p].files[k].gen] = staged[k]]
        /\ UNCHANGED <<q, receipt>>
     \/ /\ ~Reusable(p, k) /\ ~Rejected(q[p], FALSE, MaxPending)
        /\ q' = [q EXCEPT ![p] =
             [Accepted(@, k, FALSE, 0) EXCEPT !.files[k] = [snapshot |-> staged[k], gen |-> q[p].next]]]
        /\ Track(p, staged[k])
     \/ /\ ~Reusable(p, k) /\ Rejected(q[p], FALSE, MaxPending)
        /\ q' = [q EXCEPT ![p] = Tried(@, k, FALSE, MaxPending)]
        /\ UNCHANGED <<receipt, wants>>
  /\ UNCHANGED <<version, staged, remote, tombstone, rec, del, budget, history>>

-----------------------------------------------------------------------------
(* The worker.                                                             *)

(* The next task is a delayed one that is due or the head of the channel.  *)
(* Before it is tried, the tombstones are listed if that was long ago; a   *)
(* listing that fails counts all the same.                                 *)
TakeTask(p, t) ==
  /\ q[p].state # "down" /\ q[p].step = "idle"
  /\ \/ t \in q[p].delayed
     \/ q[p].chan # <<>> /\ t = Head(q[p].chan)
  /\ LET u == [q[p] EXCEPT !.task = t, !.step = "taken", !.fresh = TRUE,
                 !.delayed = @ \ {t}, !.chan = IF t \in q[p].delayed THEN @ ELSE Tail(@)] IN
     \/ /\ q' = [q EXCEPT ![p] = IF q[p].fresh THEN u
                                 ELSE [u EXCEPT !.cancelled = @ \/ tombstone, !.blind = FALSE]]
        /\ UNCHANGED budget
     \/ /\ ~q[p].fresh
        /\ q' = [q EXCEPT ![p] = [u EXCEPT !.blind = TRUE]]
        /\ Spend("blind", MaxBlind)
  /\ UNCHANGED <<version, staged, remote, tombstone, receipt, wants, rec, del, history>>

(* TOMBSTONE_REFRESH_INTERVAL has passed.                                  *)
TombstonesAge(p) ==
  /\ q[p].fresh
  /\ q' = [q EXCEPT ![p].fresh = FALSE]
  /\ UNCHANGED <<version, staged, remote, tombstone, receipt, wants, rec, del, budget, history>>

(* Mutant: only what is still queued supersedes a task.                    *)
MutIsSuperseded(u, t) == \E g \in u.outstanding[t.key] : g > t.gen

IsSuperseded(u, t) ==
  \/ \E g \in u.outstanding[t.key] : g > t.gen
  \/ u.delivered[t.key] > t.gen

(* The generation is released; with the last one the key is forgotten.     *)
Untrack(u, t, done) ==
  LET rest == u.outstanding[t.key] \ {t.gen} IN
  [u EXCEPT !.outstanding[t.key] = rest,
            !.delivered[t.key] =
               IF rest = {} THEN 0 ELSE IF done /\ t.gen > @ THEN t.gen ELSE @]

Settled(u, done) ==
  [Untrack(u, u.task, done) EXCEPT
     !.pending = @ - 1, !.inline = IF u.task.inline THEN @ - 1 ELSE @,
     !.task = NoTask, !.step = "idle"]

Settle(p, status, done) ==
  /\ q' = [q EXCEPT ![p] = Settled(@, done)]
  /\ receipt' = [receipt EXCEPT ![p][q[p].task.gen] = status]

(* Mutant: the PUT starts without a look at what is cancelled.             *)
MutBeginUpload(u) == TRUE

BeginUpload(u) == ~u.cancelled

(* Superseded, without a source, cancelled, or on its way to the store.    *)
TryTask(p) ==
  /\ q[p].step = "taken"
  /\ LET u == q[p]
         t == u.task
         gone == ~t.inline /\ staged[t.key] = 0 IN
     \/ /\ IsSuperseded(u, t)
        /\ Settle(p, "superseded", FALSE)
        /\ UNCHANGED <<remote, budget>>
     \/ /\ ~IsSuperseded(u, t) /\ gone
        /\ Settle(p, "failed", FALSE)
        /\ UNCHANGED <<remote, budget>>
     \/ /\ ~IsSuperseded(u, t) /\ ~gone /\ ~BeginUpload(u)
        /\ Settle(p, "cancelled", FALSE)
        /\ \/ remote' = [remote EXCEPT ![t.key] = 0] /\ UNCHANGED budget
           \/ Fault /\ UNCHANGED remote
     \/ /\ ~IsSuperseded(u, t) /\ ~gone /\ BeginUpload(u)
        /\ q' = [q EXCEPT ![p].step = "put"]
        /\ UNCHANGED <<remote, receipt, budget>>
  /\ UNCHANGED <<version, staged, tombstone, wants, rec, del, history>>

Content(t) == IF t.inline THEN t.content ELSE staged[t.key]
Stored(t) == [remote EXCEPT ![t.key] = Content(t)]
StoredUnlisted(p) == IF q[p].blind THEN unlisted \cup {q[p].task.key} ELSE unlisted

PutSucceeds(p) ==
  /\ q[p].step = "put" /\ Content(q[p].task) # 0
  /\ remote' = Stored(q[p].task) /\ unlisted' = StoredUnlisted(p)
  /\ Settle(p, "durable", TRUE)
  /\ UNCHANGED <<version, staged, tombstone, wants, rec, del, budget, leftover>>

(* A retry, or, while the queue is drained, the end of the task.           *)
AfterRetryable(p) ==
  IF q[p].state = "closing"
  THEN Settle(p, "shutdown", FALSE)
  ELSE /\ q' = [q EXCEPT ![p] =
             [@ EXCEPT !.delayed = @ \cup {q[p].task}, !.task = NoTask, !.step = "idle"]]
       /\ receipt' = [receipt EXCEPT ![p][q[p].task.gen] = "retrying"]

(* The file is gone, or the request failed; its answer may have been lost  *)
(* after the object was stored.                                            *)
PutFails(p) ==
  /\ q[p].step = "put"
  /\ \/ Content(q[p].task) = 0 /\ UNCHANGED <<remote, budget>>
     \/ /\ Content(q[p].task) # 0 /\ Fault
        /\ remote' \in {remote, Stored(q[p].task)}
  /\ unlisted' = IF remote' = remote THEN unlisted ELSE StoredUnlisted(p)
  /\ AfterRetryable(p)
  /\ UNCHANGED <<version, staged, tombstone, wants, rec, del, leftover>>

PutRefused(p) ==
  /\ q[p].step = "put"
  /\ Spend("permanent", MaxPermanent)
  /\ Settle(p, IF q[p].state = "closing" THEN "shutdown" ELSE "failed", FALSE)
  /\ UNCHANGED <<version, staged, remote, tombstone, wants, rec, del, history>>

-----------------------------------------------------------------------------
(* The reconciler: list what is staged and not stored, then the            *)
(* tombstones, then enqueue, and start over until a scan is complete.      *)

Reconciling(p) == q[p].state = "up"
Again(r) == [r EXCEPT !.pc = "scan", !.todo = {}, !.complete = TRUE]

ScanStaged(p) ==
  /\ Reconciling(p) /\ rec[p].pc = "scan"
  /\ LET accepted == [k \in Key |-> IF rec[p].accepted[k] = staged[k] THEN staged[k] ELSE 0] IN
     \/ /\ rec' = [rec EXCEPT ![p] = [@ EXCEPT !.pc = "tombstones", !.accepted = accepted,
             !.todo = {k \in Key : staged[k] # 0 /\ accepted[k] # staged[k] /\ remote[k] = 0}]]
        /\ UNCHANGED budget
     \/ /\ rec' = [rec EXCEPT ![p].accepted = accepted]
        /\ Fault
  /\ UNCHANGED <<version, staged, remote, tombstone, q, receipt, wants, del, history>>

ReconcileTombstones(p) == IF tombstone THEN rec[p].todo ELSE {}

ListTombstones(p) ==
  /\ Reconciling(p) /\ rec[p].pc = "tombstones"
  /\ \/ /\ rec' = [rec EXCEPT ![p] = [@ EXCEPT !.pc = "enqueue", !.todo = @ \ ReconcileTombstones(p),
             !.accepted = [k \in Key |-> IF tombstone THEN 0 ELSE rec[p].accepted[k]]]]
        /\ UNCHANGED budget
     \/ rec' = [rec EXCEPT ![p] = Again(@)] /\ Fault
  /\ UNCHANGED <<version, staged, remote, tombstone, q, receipt, wants, del, history>>

(* Mutant: a scan that met a full queue counts as complete.                *)
MutScanEnd(r) == [r EXCEPT !.pc = "done"]

ScanEnd(r) == IF r.complete THEN [r EXCEPT !.pc = "done"] ELSE Again(r)

(* Room for recordings is kept; a full queue ends the scan.                *)
EnqueueStaged(p) ==
  /\ Reconciling(p) /\ rec[p].pc = "enqueue"
  /\ \/ /\ rec[p].todo = {}
        /\ rec' = [rec EXCEPT ![p] = ScanEnd(@)]
        /\ UNCHANGED <<q, receipt, wants>>
     \/ /\ rec[p].todo # {} /\ q[p].next <= MaxGeneration
        /\ LET k == CHOOSE x \in rec[p].todo : TRUE IN
           IF Rejected(q[p], FALSE, ReconcileLimit)
           THEN /\ q' = [q EXCEPT ![p] = Tried(@, k, FALSE, ReconcileLimit)]
                /\ rec' = [rec EXCEPT ![p] =
                     [@ EXCEPT !.complete = FALSE,
                               !.todo = IF q[p].cancelled THEN @ \ {k} ELSE {}]]
                /\ UNCHANGED <<receipt, wants>>
           ELSE /\ q' = [q EXCEPT ![p] = Accepted(@, k, FALSE, 0)]
                /\ Track(p, 0)
                /\ rec' = [rec EXCEPT ![p] = [@ EXCEPT !.todo = @ \ {k}, !.accepted[k] = staged[k]]]
  /\ UNCHANGED <<version, staged, remote, tombstone, del, budget, history>>

-----------------------------------------------------------------------------
(* delete_prefix, asked for by the cleanup of process p, and the removal   *)
(* of the staged files after it.                                           *)

Deletes(p, from) == q[p].state = "up" /\ del.pc = from

CancelPrefix(p) ==
  /\ Deleting /\ Deletes(p, "none") /\ version > 0
  /\ q' = [q EXCEPT ![p].cancelled = TRUE]
  /\ \/ tombstone' = TRUE /\ del' = [pc |-> "wait", by |-> p, keys |-> {}] /\ UNCHANGED budget
     \/ Fault /\ del' = [pc |-> "failed", keys |-> {}] /\ UNCHANGED tombstone
  /\ UNCHANGED <<version, staged, remote, receipt, wants, rec, history>>

Drained(p) == q[p].step # "put"

DeleteStep(p) ==
  /\ Deletes(p, "wait") \/ Deletes(p, "list")
  /\ del.by = p
  /\ \/ /\ del.pc = "wait" /\ Drained(p)
        /\ del' = [del EXCEPT !.pc = "list"]
        /\ UNCHANGED <<remote, budget>>
     \/ /\ del.pc = "wait" /\ ~Drained(p)
        /\ Fault /\ del' = [pc |-> "failed", keys |-> {}]
        /\ UNCHANGED remote
     \/ /\ del.pc = "list" /\ del.keys = {}
        /\ \/ /\ del' = [del EXCEPT !.keys = {k \in Key : remote[k] # 0},
                         !.pc = IF \A k \in Key : remote[k] = 0 THEN "done" ELSE "list"]
              /\ UNCHANGED budget
           \/ Fault /\ del' = [pc |-> "failed", keys |-> {}]
        /\ UNCHANGED remote
     \/ /\ del.pc = "list" /\ del.keys # {}
        /\ \/ /\ remote' = [k \in Key |-> IF k \in del.keys THEN 0 ELSE remote[k]]
              /\ del' = [del EXCEPT !.pc = "done"]
              /\ UNCHANGED budget
           \/ /\ Fault /\ del' = [pc |-> "failed", keys |-> {}]
              /\ \E some \in SUBSET del.keys :
                   remote' = [k \in Key |-> IF k \in some THEN 0 ELSE remote[k]]
  /\ UNCHANGED <<version, staged, tombstone, q, receipt, wants, rec, history>>

(* The staged files go whether or not the objects went.                    *)
RemoveStaged ==
  /\ del.pc \in {"done", "failed"} /\ \E k \in Key : staged[k] # 0
  /\ staged' = [k \in Key |-> 0]
  /\ UNCHANGED <<version, remote, tombstone, q, receipt, wants, rec, del, budget, history>>

(* A later run of the cleanup.                                             *)
DeleteAgain ==
  /\ del.pc = "failed"
  /\ del' = [pc |-> "none", keys |-> {}]
  /\ UNCHANGED <<version, staged, remote, tombstone, q, receipt, wants, rec, budget, history>>

-----------------------------------------------------------------------------
(* The end of a process and the next one.                                  *)

(* UploadTask's Drop answers whoever still waits.                          *)
Dropped(p) == [g \in Generation |-> IF receipt[p][g] \in {"queued", "retrying"} THEN "shutdown" ELSE receipt[p][g]]

Shutdown(p) ==
  /\ q[p].state = "up"
  /\ Spend("crashes", MaxCrashes)
  /\ q' = [q EXCEPT ![p].state = "closing"]
  /\ rec' = [rec EXCEPT ![p].pc = "done"]
  /\ UNCHANGED <<version, staged, remote, tombstone, receipt, wants, del, history>>

Drain(p) ==
  /\ q[p].state = "closing" /\ q[p].chan = <<>> /\ q[p].delayed = {} /\ q[p].step = "idle"
  /\ q' = [q EXCEPT ![p].state = "down"]
  /\ UNCHANGED <<version, staged, remote, tombstone, receipt, wants, rec, del, budget, history>>

(* A PUT that was under way may still arrive.                              *)
Crash(p) ==
  /\ q[p].state # "down"
  /\ Spend("crashes", MaxCrashes)
  /\ remote' \in IF q[p].step = "put" /\ Content(q[p].task) # 0
                 THEN {remote, Stored(q[p].task)} ELSE {remote}
  /\ unlisted' = IF remote' = remote THEN unlisted ELSE StoredUnlisted(p)
  /\ q' = [q EXCEPT ![p] = [NewQueue EXCEPT !.state = "down", !.next = q[p].next]]
  /\ receipt' = [receipt EXCEPT ![p] = Dropped(p)]
  /\ rec' = [rec EXCEPT ![p] = [NewReconciler EXCEPT !.pc = "done"]]
  /\ del' = IF del.pc \in {"wait", "list"} /\ del.by = p THEN [pc |-> "none", keys |-> {}] ELSE del
  /\ UNCHANGED <<version, staged, tombstone, wants, leftover>>

Restart(p) ==
  /\ q[p].state = "down"
  /\ q' = [q EXCEPT ![p] = [NewQueue EXCEPT !.next = q[p].next]]
  /\ rec' = [rec EXCEPT ![p] = NewReconciler]
  /\ UNCHANGED <<version, staged, remote, tombstone, receipt, wants, del, budget, history>>

WorkerStep(p) ==
  \/ \E t \in q[p].delayed \cup {q[p].chan[i] : i \in DOMAIN q[p].chan} : TakeTask(p, t)
  \/ TryTask(p) \/ PutSucceeds(p) \/ PutFails(p) \/ PutRefused(p)
Reconciler(p) == ScanStaged(p) \/ ListTombstones(p) \/ EnqueueStaged(p)

Next ==
  \/ \E p \in Proc :
       \/ \E k \in Key : SaveChunk(p, k) \/ PutSnapshot(p, k) \/ UploadFile(p, k)
       \/ \E k, again \in Chunks : RetryChunk(p, k, again)
       \/ WorkerStep(p) \/ Reconciler(p) \/ TombstonesAge(p)
       \/ CancelPrefix(p) \/ DeleteStep(p)
       \/ Shutdown(p) \/ Drain(p) \/ Crash(p) \/ Restart(p)
  \/ \E k \in Key : BuildFile(k)
  \/ RemoveStaged \/ DeleteAgain

Spec == Init /\ [][Next]_vars

(* The worker and the reconciler are threads with nothing to wait for but  *)
(* the store, and every delayed task is due in the end.                    *)
Fairness ==
  /\ \A p \in Proc :
       /\ WF_vars(WorkerStep(p)) /\ WF_vars(Reconciler(p)) /\ WF_vars(Restart(p)) /\ WF_vars(Drain(p))

FairSpec == Spec /\ Fairness

-----------------------------------------------------------------------------
TypeOK ==
  /\ version \in 0 .. MaxVersion
  /\ staged \in [Key -> 0 .. MaxVersion] /\ remote \in [Key -> 0 .. MaxVersion]
  /\ tombstone \in BOOLEAN
  /\ \A p \in Proc :
       /\ q[p].state \in {"up", "closing", "down"} /\ q[p].step \in {"idle", "taken", "put"}
       /\ Len(q[p].chan) <= QueueBound
       /\ q[p].next \in 1 .. MaxGeneration + 1
       /\ rec[p].pc \in {"scan", "tombstones", "enqueue", "done"}
  /\ del.pc \in {"none", "wait", "list", "done", "failed"}
  /\ leftover \subseteq 1 .. MaxVersion /\ unlisted \subseteq Key

Tasks(p) ==
  q[p].delayed \cup {q[p].chan[i] : i \in DOMAIN q[p].chan}
    \cup (IF q[p].step = "idle" THEN {} ELSE {q[p].task})

(* A task is counted once from its acceptance until it leaves, whichever   *)
(* way it leaves, so the limits never shrink for good and a rejected task  *)
(* never supersedes an accepted one.                                       *)
AccountingExact ==
  \A p \in Proc :
    /\ q[p].pending = Cardinality(Tasks(p))
    /\ q[p].inline = Cardinality({t \in Tasks(p) : t.inline})
    /\ \A k \in Key : q[p].outstanding[k] = {t.gen : t \in {x \in Tasks(p) : x.key = k}}

(* A retry never replaces an object with an older state of the same file,  *)
(* as long as one process writes it and does not start again.              *)
NewestWinsStep ==
  \A k \in Key :
    remote[k] # 0 /\ remote'[k] # 0 /\ budget'.crashes = 0 => remote'[k] >= remote[k]

NewestWins == [][NewestWinsStep]_vars

(* Whoever was told that its file is durable finds that state of it, or a  *)
(* newer one, in the store, unless the recording is deleted.               *)
DurableIsStored ==
  \A p \in Proc : \A g \in Generation :
    \A k \in Files :
      /\ receipt[p][g] = "durable" /\ q[p].files[k].gen = g
      /\ ~tombstone /\ ~q[p].cancelled
      => remote[k] >= wants[p][g]

(* After a deletion that succeeded no upload brings an object back,        *)
(* neither a retry nor one that was under way, nor one after a restart,    *)
(* but for a worker whose last listing of the tombstones failed: a failed  *)
(* listing counts as fetched (storage_s3.rs:493), and for that interval a  *)
(* restarted process does not know of the deletion.                        *)
DeletedStaysDeleted ==
  del.pc = "done" => \A k \in Key : remote[k] # 0 => k \in unlisted

(* The same audio is staged twice only where the earlier copy could not be *)
(* removed, though a save is retried under another name.                   *)
OneStagedCopy ==
  \A k1, k2 \in Chunks :
    staged[k1] # 0 /\ staged[k1] = staged[k2] => k1 = k2 \/ staged[k1] \in leftover

(* Whoever waits for a receipt gets an answer.                             *)
ReceiptAnswered ==
  \A p \in Proc : \A g \in Generation :
    receipt[p][g] \in {"queued", "retrying"} ~> receipt[p][g] \in Terminal

(* What is staged when a process starts is stored in the end, although     *)
(* requests fail and the queue is full, unless it is deleted or rewritten. *)
StagedReachesStore ==
  \A p \in Proc : \A k \in Key :
    (rec[p].pc = "scan" /\ staged[k] # 0)
      ~> (remote[k] # 0 \/ staged[k] = 0 \/ tombstone \/ q[p].cancelled \/ q[p].state # "up"
          \/ q[p].next > MaxGeneration)
=============================================================================
