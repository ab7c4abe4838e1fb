-------------------------- MODULE RecordingSession --------------------------
(***************************************************************************)
(* The audio of one recording from the voice tick to the file: buffers per *)
(* speaker (receiver.rs), chunks with reserved sequence numbers and the    *)
(* retry buffer (recording_session.rs), the bounded writer outside the     *)
(* session lock (recording_writer.rs), staging and upload of a chunk       *)
(* (storage_fs.rs, storage_s3.rs), and the two gated steps of the teardown *)
(* (runtime.rs).  A speaker Discord has not named yet is buffered under    *)
(* the key of the SSRC and re-keyed when the name arrives.                 *)
(*                                                                         *)
(* A frame is the pair of its tick and its SSRC and counts as one byte.    *)
(***************************************************************************)
EXTENDS Naturals, Sequences, SequencesExt

CONSTANTS
  Ssrc,        \* SSRC fallback keys, numbers below every user
  Owner,       \* the user behind an SSRC
  Ticks,       \* bound on voice ticks that carry audio
  MaxBuffer,   \* MAX_RECEIVER_BUFFERED_FRAMES_PER_USER
  MaxTasks,    \* bound on accepted writes
  MaxBytes,    \* bound on bytes of accepted writes
  MaxPending,  \* MAX_PENDING_FAILED_CHUNK_BYTES
  MaxFaults    \* bound on failed writes, removals and builds of a chunk

SsrcAssumption == Ssrc \subseteq Nat /\ Owner \in [Ssrc -> Nat \ Ssrc]
BoundAssumption ==
  /\ {Ticks, MaxBuffer, MaxTasks, MaxBytes} \subseteq Nat \ {0}
  /\ {MaxPending, MaxFaults} \subseteq Nat

User == {Owner[s] : s \in Ssrc}
Key == Ssrc \cup User
Frame == (1 .. Ticks) \X Ssrc
AudioChunk == [key : Key, seq : Nat, start : 1 .. Ticks, frames : SUBSET Frame]

VARIABLES
  clock,      \* ticks so far
  tracker,    \* SsrcTracker: SSRC -> user, or 0
  buffer,     \* frames per key
  perUserSeq, \* last sequence number per key
  pending,    \* pending_failed_chunks
  queue,      \* writer: accepted chunks in order
  acks,       \* writer: outcomes not acknowledged yet; they hold their permit
  files,      \* chunk files on disk
  staged,     \* files of which the upload was never queued (failed_staged)
  accepted,   \* frames the receiver has taken
  lost,       \* frames evicted and counted in audio_loss
  trimmed,    \* frames dropped with a warning: by a merge over the buffer limit,
              \* or with a chunk that could not be built
  doubled,    \* history: frames of which an earlier copy could not be removed
  phase,      \* of the session: see the teardown
  faults

vars == <<clock, tracker, buffer, perUserSeq, pending, queue, acks, files, staged,
          accepted, lost, trimmed, doubled, phase, faults>>

session == <<buffer, perUserSeq, pending>>
writer == <<queue, acks>>
disk == <<files, staged, doubled>>
counts == <<accepted, lost, trimmed>>

Range2(s) == {s[i] : i \in DOMAIN s}
SumOf(S, f(_)) == FoldLeft(LAMBDA n, c : n + f(c), 0, SetToSeq(S))
Size(c) == Cardinality(c.frames)
FramesOf(S) == UNION {c.frames : c \in S}
FirstTick(F) == CHOOSE t \in {f[1] : f \in F} : \A f \in F : t <= f[1]

Before(c, d) ==
  \/ c.start < d.start
  \/ c.start = d.start /\ c.key < d.key
  \/ c.start = d.start /\ c.key = d.key /\ c.seq < d.seq

Init ==
  /\ clock = 0
  /\ tracker = [s \in Ssrc |-> 0]
  /\ buffer = [k \in Key |-> {}]
  /\ perUserSeq = [k \in Key |-> 0]
  /\ pending = {}
  /\ queue = <<>> /\ acks = {}
  /\ files = {} /\ staged = {} /\ doubled = {}
  /\ accepted = {} /\ lost = {} /\ trimmed = {}
  /\ phase = "recording"
  /\ faults = 0

-----------------------------------------------------------------------------
(* Receiver and session.                                                   *)

KeyOf(s) == IF tracker[s] # 0 THEN tracker[s] ELSE s

(* Frames of the SSRCs that speak in a tick; a full buffer drops them.     *)
TrackFrames(speaking) ==
  {s \in speaking : Cardinality(buffer[KeyOf(s)]) < MaxBuffer}

(* A chunk of every key in due, with the next sequence number of the key.  *)
PrepareChunks(buf, due) ==
  {[key |-> k, seq |-> perUserSeq[k] + 1, start |-> FirstTick(buf[k]), frames |-> buf[k]] :
     k \in due}

ReserveSequences(due) ==
  [k \in Key |-> IF k \in due THEN perUserSeq[k] + 1 ELSE perUserSeq[k]]

(* build_chunks_best_effort: of the keys in bad the chunk cannot be built; *)
(* it is skipped with a warning, before a sequence number is reserved.     *)
SkipUnbuilt(buf, bad) ==
  trimmed' = trimmed \cup UNION {buf[k] : k \in bad}

(* Oldest first, until the rest fits.                                      *)
Evicted(P) ==
  {c \in P : SumOf({d \in P : c = d \/ Before(c, d)}, Size) > MaxPending}

-----------------------------------------------------------------------------
(* Storage.                                                                *)

(* Mutant: an earlier staging copy of the same audio is left on disk.      *)
MutSuperseded(c, copies) == {f \in copies : f = c}

(* Staging copies with the same start and the same bytes.                  *)
Superseded(c, copies) == {f \in copies : f.start = c.start /\ f.frames = c.frames}

(* What saving c leaves on disk: written and queued for upload, nothing    *)
(* written, or staged without an upload.  Whether a superseded copy could  *)
(* be removed or not, it is not looked for again.                          *)
SaveChunk(c, outcome, disk0) ==
  LET copies == Superseded(c, disk0.staged)
      gone == IF outcome.removed THEN copies ELSE {}
      kept == [files |-> disk0.files \ gone, staged |-> disk0.staged \ copies,
               doubled |-> disk0.doubled \cup FramesOf(copies \ gone)]
      written == {f \in kept.files : <<f.key, f.seq, f.start>> # <<c.key, c.seq, c.start>>}
                   \cup {c} IN
  CASE outcome.save = "saved" -> [kept EXCEPT !.files = written]
    [] outcome.save = "io" -> kept
    [] outcome.save = "remote" -> [kept EXCEPT !.files = written, !.staged = @ \cup {c}]

Outcome == [save : {"saved", "io", "remote"}, removed : BOOLEAN]
FaultsIn(outcome) == (IF outcome.save = "saved" THEN 0 ELSE 1) + (IF outcome.removed THEN 0 ELSE 1)

Disk == [files |-> files, staged |-> staged, doubled |-> doubled]
WriteDisk(d) == files' = d.files /\ staged' = d.staged /\ doubled' = d.doubled

-----------------------------------------------------------------------------
(* The writer.                                                             *)

Held(q) == Range2(q) \cup {a.chunk : a \in acks}

(* A permit for the task and its bytes.                                    *)
HasRoom(q, c) ==
  /\ Cardinality(Held(q)) < MaxTasks
  /\ SumOf(Held(q), Size) + Size(c) <= MaxBytes

(* A chunk is enqueued, or retained in the session under its limit.        *)
EnqueueOrRetain(st, c) ==
  IF HasRoom(st.queue, c) THEN [st EXCEPT !.queue = Append(@, c)]
  ELSE LET P == st.pending \cup {c} IN
       [st EXCEPT !.pending = P \ Evicted(P), !.lost = @ \cup FramesOf(Evicted(P))]

(* Voice ticks and speaking updates are refused while the teardown holds   *)
(* the gate, and after the session is gone they find none.                 *)
GateFree == phase \in {"recording", "stopping"}

Spend(n) == faults + n <= MaxFaults /\ faults' = faults + n

(* prepare_due: pending chunks ride along with the first due chunk.        *)
VoiceTick(speaking, due, bad) ==
  /\ GateFree /\ clock < Ticks
  /\ bad \subseteq due /\ Spend(Cardinality(bad))
  /\ clock' = clock + 1
  /\ LET taken == TrackFrames(speaking)
         buf == [k \in Key |-> buffer[k] \cup {<<clock + 1, s>> : s \in {r \in taken : KeyOf(r) = k}}]
         lt(c, d) == Before(c, d)
         built == PrepareChunks(buf, due \ bad)
         chunks == SetToSortSeq(pending, lt) \o SetToSortSeq(built, lt)
         st == FoldLeft(EnqueueOrRetain, [queue |-> queue, pending |-> {}, lost |-> lost], chunks) IN
     /\ \A k \in due : buf[k] # {}
     /\ accepted' = accepted \cup {<<clock + 1, s>> : s \in taken}
     /\ buffer' = [k \in Key |-> IF k \in due THEN {} ELSE buf[k]]
     /\ perUserSeq' = ReserveSequences(due \ bad)
     /\ SkipUnbuilt(buf, bad)
     /\ IF built = {} THEN UNCHANGED <<queue, pending, lost>>
        ELSE queue' = st.queue /\ pending' = st.pending /\ lost' = st.lost
  /\ UNCHANGED <<tracker, acks, disk, phase>>

(* Merging buffers keeps the newest frames that fit.                       *)
DropOldestOverLimits(F) ==
  {f \in F : Cardinality({g \in F : g[1] > f[1]}) >= MaxBuffer}

RekeyChunk(c, s) == IF c.key = s THEN [c EXCEPT !.key = Owner[s]] ELSE c

(* The name of a speaker arrives: buffer, retry buffer and counter move.   *)
SpeakingStateUpdate(s) ==
  /\ GateFree /\ tracker[s] = 0
  /\ tracker' = [tracker EXCEPT ![s] = Owner[s]]
  /\ LET merged == buffer[s] \cup buffer[Owner[s]]
         drop == IF buffer[s] = {} THEN {} ELSE DropOldestOverLimits(merged) IN
     /\ buffer' = [buffer EXCEPT ![s] = {}, ![Owner[s]] = merged \ drop]
     /\ trimmed' = trimmed \cup drop
  /\ pending' = {RekeyChunk(c, s) : c \in pending}
  /\ perUserSeq' = [perUserSeq EXCEPT ![s] = 0,
       ![Owner[s]] = IF perUserSeq[s] > @ THEN perUserSeq[s] ELSE @]
  /\ UNCHANGED <<clock, writer, disk, accepted, lost, phase, faults>>

(* The worker saves the chunk at the head of its queue.                    *)
WriterSave(outcome) ==
  /\ queue # <<>>
  /\ Spend(FaultsIn(outcome))
  /\ WriteDisk(SaveChunk(Head(queue), outcome, Disk))
  /\ queue' = Tail(queue)
  /\ acks' = acks \cup {[chunk |-> Head(queue), ok |-> outcome.save = "saved"]}
  /\ UNCHANGED <<clock, tracker, session, counts, phase>>

(* Mutant: the completion task enters through the voice event gate.        *)
MutCompleteRecordingChunkWrite(a) ==
  /\ a \in acks /\ GateFree
  /\ acks' = acks \ {a}
  /\ pending' = IF a.ok THEN pending ELSE pending \cup {a.chunk}
  /\ UNCHANGED <<clock, tracker, buffer, perUserSeq, queue, disk, counts, phase, faults>>

(* The completion task hands a failed chunk back to the session; a chunk   *)
(* whose session is gone is lost without a trace.                          *)
CompleteRecordingChunkWrite(a) ==
  /\ a \in acks
  /\ acks' = acks \ {a}
  /\ IF a.ok \/ phase \in {"removed", "done"} THEN UNCHANGED <<pending, lost>>
     ELSE LET P == pending \cup {a.chunk} IN
          /\ pending' = P \ Evicted(P)
          /\ lost' = lost \cup FramesOf(Evicted(P))
  /\ UNCHANGED <<clock, tracker, buffer, perUserSeq, queue, disk, accepted, trimmed, phase, faults>>

-----------------------------------------------------------------------------
(* Teardown: gate, drain, flush; stop the meeting; gate, drain, remove the *)
(* session; leave; flush the tail.                                         *)

Drained == queue = <<>> /\ acks = {}

(* Every chunk in order, the failed ones back in the retry buffer.         *)
FlushAll(outcome, bad) ==
  LET lt(c, d) == Before(c, d)
      due == {k \in Key : buffer[k] # {}}
      chunks == SetToSortSeq(pending, lt) \o SetToSortSeq(PrepareChunks(buffer, due \ bad), lt)
      failed == {c \in Range2(chunks) : outcome[c.start].save # "saved"} IN
  /\ bad \subseteq due
  /\ Spend(Cardinality(bad) + SumOf(Range2(chunks), LAMBDA c : FaultsIn(outcome[c.start])))
  /\ WriteDisk(FoldLeft(LAMBDA d, c : SaveChunk(c, outcome[c.start], d), Disk, chunks))
  /\ buffer' = [k \in Key |-> {}]
  /\ perUserSeq' = ReserveSequences(due \ bad)
  /\ SkipUnbuilt(buffer, bad)
  /\ pending' = failed \ Evicted(failed)
  /\ lost' = lost \cup FramesOf(Evicted(failed))

TakeGate ==
  /\ \/ phase = "recording" /\ phase' = "flushing"
     \/ phase = "stopping" /\ phase' = "removing"
  /\ UNCHANGED <<clock, tracker, session, writer, disk, counts, faults>>

FlushSessionForTeardown(outcome, bad) ==
  /\ phase = "flushing" /\ Drained
  /\ FlushAll(outcome, bad)
  /\ phase' = "stopping"
  /\ UNCHANGED <<clock, tracker, writer, accepted>>

RemoveSession ==
  /\ phase = "removing" /\ Drained
  /\ phase' = "removed"
  /\ UNCHANGED <<clock, tracker, session, writer, disk, counts, faults>>

FlushTail(outcome, bad) ==
  /\ phase = "removed"
  /\ FlushAll(outcome, bad)
  /\ phase' = "done"
  /\ UNCHANGED <<clock, tracker, writer, accepted>>

-----------------------------------------------------------------------------
(* One SSRC per user speaks at a time.                                     *)
Speaking == {S \in SUBSET Ssrc : \A s, r \in S : Owner[s] = Owner[r] => s = r}
Possible == {o \in Outcome : faults + FaultsIn(o) <= MaxFaults}
Buffered == {k \in Key : buffer[k] # {}}
FlushOutcomes ==
  [{c.start : c \in pending} \cup {FirstTick(buffer[k]) : k \in Buffered} -> Possible]
Flush == \E o \in FlushOutcomes, bad \in SUBSET Buffered :
           FlushSessionForTeardown(o, bad) \/ FlushTail(o, bad)

Next ==
  \/ \E S \in Speaking, due \in SUBSET Key : \E bad \in SUBSET due : VoiceTick(S, due, bad)
  \/ \E s \in Ssrc : SpeakingStateUpdate(s)
  \/ \E o \in Possible : WriterSave(o)
  \/ \E a \in acks : CompleteRecordingChunkWrite(a)
  \/ TakeGate \/ RemoveSession
  \/ Flush

Spec == Init /\ [][Next]_vars

(* The worker and the completion tasks run on; the teardown is driven by   *)
(* its caller once it has begun.                                           *)
Fairness ==
  /\ WF_vars(\E o \in Possible : WriterSave(o))
  /\ WF_vars(\E a \in acks : CompleteRecordingChunkWrite(a))
  /\ WF_vars(TakeGate /\ phase = "stopping")
  /\ WF_vars(RemoveSession \/ Flush)

FairSpec == Spec /\ Fairness

-----------------------------------------------------------------------------
(* Every variable keeps its type.                                          *)
TypeOK ==
  /\ clock \in 0 .. Ticks
  /\ tracker \in [Ssrc -> User \cup {0}]
  /\ buffer \in [Key -> SUBSET Frame]
  /\ perUserSeq \in [Key -> Nat]
  /\ \A c \in pending \cup Range2(queue) \cup {a.chunk : a \in acks} \cup files : c \in AudioChunk
  /\ staged \subseteq files
  /\ accepted \subseteq Frame /\ lost \subseteq accepted /\ trimmed \subseteq accepted
  /\ phase \in {"recording", "flushing", "stopping", "removing", "removed", "done"}
  /\ faults \in 0 .. MaxFaults

InMemory == UNION {buffer[k] : k \in Key} \cup FramesOf(pending) \cup FramesOf(Held(queue))

(* Audio the receiver took is never lost silently: it is in memory or in a *)
(* file, or counted as lost, or it was trimmed or skipped with a warning,  *)
(* whatever writes fail and whenever the recording is stopped.             *)
FramesAccounted ==
  accepted \subseteq InMemory \cup FramesOf(files) \cup lost \cup trimmed

(* Assembly mixes every file of the meeting, so a frame must not be in two *)
(* of them, although a failed chunk is saved again, perhaps under another  *)
(* name after its speaker was re-keyed (storage_s3.rs:1573).  It is in two *)
(* only if the earlier copy could not be removed ("duplicate may persist", *)
(* storage_s3.rs:1595).                                                    *)
FramesStoredOnce ==
  \A f, g \in files : f # g => f.frames \cap g.frames \subseteq doubled

(* Files carry the frames of their own speaker only.                       *)
RightSpeaker ==
  \A c \in files \cup pending : \A f \in c.frames : c.key \in {f[2], Owner[f[2]]}

(* The writer's bounds hold between the queue and the acknowledgement.     *)
WriterBounded ==
  Cardinality(Held(queue)) <= MaxTasks /\ SumOf(Held(queue), Size) <= MaxBytes

(* A prepared chunk keeps its identity, "so retries always target the same *)
(* chunk path" (recording_session.rs:23): nothing renames a chunk that     *)
(* waits for its retry.                                                    *)
RetriesKeepPath ==
  [][\A c \in pending, d \in pending' : c.frames = d.frames => c = d]_vars

(* A teardown that has begun ends: the drain under the gate is never       *)
(* waiting for a write that needs the gate.                                *)
TeardownEnds == phase = "flushing" ~> phase = "done"
=============================================================================
