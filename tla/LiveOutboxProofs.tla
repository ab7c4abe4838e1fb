-------------------------- MODULE LiveOutboxProofs --------------------------
(***************************************************************************)
(* Proofs about LiveOutbox, for every number of chunks, meetings, clients   *)
(* and faults: whatever client, claim, recovery, panic or restart a chunk   *)
(* is caught in, its speech is in the final transcript once if it was       *)
(* stored when the summary job was enqueued, and never twice.               *)
(***************************************************************************)
EXTENDS LiveOutbox, WellFoundedInduction, TLAPS

OutboxAssumption == ChunkAssumption /\ MeetingAssumption /\ BoundAssumption

(***************************************************************************)
(* The inductive invariant.                                                *)
(***************************************************************************)

(* A dispatcher holds the process's permit. *)
Busy(g) == disp[g].at \notin {"off", "idle"}

(* The permit is held once, by whoever is busy; a dispatcher has a job from the *)
(* claim to the end; a client that was not started has no dispatcher.           *)
PermitHeld ==
    /\ \A g \in Clients : Busy(g) => active
    /\ \A g \in Clients : disp[g].at # "off" => g <= gateway
    /\ \A g, h \in Clients : Busy(g) /\ Busy(h) => g = h
    /\ \A g \in Clients : disp[g].job # NoJob <=> Busy(g) /\ disp[g].at # "claim"

(* What was done live has its live rows until the final ones replace them. *)
DoneIsLive ==
    \A c \in Chunk \ Silent :
        row[c] = "done" /\ ~FinalRowsExist(MeetingOf[c]) => c \in live

(* Whatever the task has loaded, it leaves out of its own transcription exactly *)
(* the speech it has loaded.                                                    *)
InputFits ==
    \A m \in Meeting : \A c \in ChunksOf(m) \ Silent :
        c \in task[m].live <=> c \in task[m].done

Listed == {"listed", "loaded", "hearing"}
Ended == {"posted", "failed"}

(* A meeting is summarised once its job is enqueued.  What is due from then on  *)
(* stays stored until the meeting has ended, so that the task lists it all,     *)
(* whatever the last flush adds.                                                *)
QueuedFirst ==
    /\ \A m \in Meeting : task[m].at # "none" \/ FinalRowsExist(m) => m \in job
    /\ \A c \in due : status[MeetingOf[c]] \notin Ended => c \in audio
    /\ \A m \in Meeting : task[m].at \in Listed => due \cap ChunksOf(m) \subseteq task[m].heard

TextInv ==
    LiveYieldsToFinal /\ EveryChunkOnce /\ DoneIsLive /\ InputFits /\ QueuedFirst

OutboxInv == TypeOK /\ PermitHeld /\ RunningIsOwned /\ TextInv

Inputs == [at : {"none", "listed", "loaded", "final", "hearing", "written"},
           heard : SUBSET Chunk, live : SUBSET Chunk, done : SUBSET Chunk]

(***************************************************************************)
(* What the building blocks do.                                            *)
(***************************************************************************)

(* A non-empty set of chunks has a first one. *)
LEMMA FirstExists ==
  ASSUME OutboxAssumption, NEW S, S \subseteq Chunk, S # {}
  PROVE  \E c \in S : \A d \in S : c <= d
<1> DEFINE before == OpToRel(<, Nat)
<1>1. S \subseteq Nat
  BY DEF OutboxAssumption, ChunkAssumption
<1>2. IsWellFoundedOn(before, Nat)
  BY NatLessThanWellFounded
<1> HIDE DEF before
<1>3. PICK c \in S : \A d \in S : ~(<<d, c>> \in before)
  BY <1>1, <1>2, WFMin
<1>4. \A d \in S : ~(d < c)
  BY <1>1, <1>3 DEF before, OpToRel
<1>5. QED
  BY <1>1, <1>4

LEMMA NextIsQueued ==
  ASSUME OutboxAssumption, NEW r, Queued(r) # {}
  PROVE  NextQueued(r) \in Chunk /\ r[NextQueued(r)] = "queued"
<1>1. Queued(r) \subseteq Chunk
  BY DEF Queued
<1>2. \E c \in Queued(r) : \A d \in Queued(r) : c <= d
  BY <1>1, FirstExists
<1>3. NextQueued(r) \in Queued(r)
  BY <1>2 DEF NextQueued
<1>4. QED
  BY <1>3 DEF Queued

LEMMA Constants ==
  ASSUME OutboxAssumption
  PROVE  /\ NoJob \notin Chunk /\ Chunk \subseteq Nat /\ Clients \subseteq Nat
         /\ 1 \in Clients /\ Gateways \in Nat /\ MaxFaults \in Nat
         /\ MeetingOf \in [Chunk -> Meeting]
         /\ \A c \in Chunk, m \in Meeting : c \in ChunksOf(m) <=> MeetingOf[c] = m
BY DEF OutboxAssumption, ChunkAssumption, MeetingAssumption, BoundAssumption, NoJob, Clients,
       ChunksOf

(* The status write of the outbox keeps every row in its type. *)
LEMMA RowWrites ==
  ASSUME TypeOK
  PROVE  /\ \A c : PersistQueued(c) \in [Chunk -> {"none", "queued", "running", "done", "failed"}]
         /\ RecoverInterrupted(row) \in [Chunk -> {"none", "queued", "running", "done", "failed"}]
         /\ \A c \in Chunk : RecoverInterrupted(row)[c] # "running"
         /\ \A c \in Chunk : RecoverInterrupted(row)[c] = "done" <=> row[c] = "done"
         /\ \A c, d \in Chunk : /\ PersistQueued(c)[d] = "running" <=> row[d] = "running"
                                /\ PersistQueued(c)[d] = "done" <=> row[d] = "done"
BY DEF TypeOK, PersistQueued, RecoverInterrupted

(* The dispatcher's moves. *)
LEMMA DispatchMoves ==
  ASSUME TypeOK, NEW g \in Clients
  PROVE  /\ \A pc \in Points : Goto(g, pc) =>
              /\ disp' \in [Clients -> [at : Points, job : Chunk \cup {NoJob}]]
              /\ disp'[g].at = pc /\ disp'[g].job = disp[g].job
              /\ \A h \in Clients : h # g => disp'[h] = disp[h]
         /\ Finish(g) =>
              /\ disp' \in [Clients -> [at : Points, job : Chunk \cup {NoJob}]]
              /\ disp'[g].at = "idle" /\ disp'[g].job = NoJob /\ active' = FALSE
              /\ \A h \in Clients : h # g => disp'[h] = disp[h]
<1>1. disp \in [Clients -> [at : Points, job : Chunk \cup {NoJob}]]
  BY DEF TypeOK
<1>2. ASSUME NEW pc \in Points, Goto(g, pc)
      PROVE  /\ disp' \in [Clients -> [at : Points, job : Chunk \cup {NoJob}]]
             /\ disp'[g].at = pc /\ disp'[g].job = disp[g].job
             /\ \A h \in Clients : h # g => disp'[h] = disp[h]
  BY <1>1, <1>2 DEF Goto
<1>3. ASSUME Finish(g)
      PROVE  /\ disp' \in [Clients -> [at : Points, job : Chunk \cup {NoJob}]]
             /\ disp'[g].at = "idle" /\ disp'[g].job = NoJob /\ active' = FALSE
             /\ \A h \in Clients : h # g => disp'[h] = disp[h]
  BY <1>1, <1>3 DEF Finish, Idle, Points
<1>4. QED
  BY <1>2, <1>3

(* What no dispatcher does leaves the permit alone, ... *)
LEMMA PermitKept ==
  ASSUME OutboxInv, UNCHANGED <<disp, active, gateway>>
  PROVE  PermitHeld'
BY DEF OutboxInv, PermitHeld, Busy

(* ... what writes no text leaves the transcripts alone, ... *)
LEMMA TextMoved ==
  ASSUME OutboxAssumption, OutboxInv, UNCHANGED <<queue, audio, live, finalText, task>>,
         \A m \in Meeting : status[m] \in Ended => status'[m] \in Ended,
         \A c \in Chunk : row'[c] = "done" => row[c] = "done"
  PROVE  TextInv'
<1> USE DEF queue
<1>1. \A m : FinalRowsExist(m)' <=> FinalRowsExist(m)
  BY DEF FinalRowsExist
<1>2. LiveYieldsToFinal' /\ EveryChunkOnce'
  BY <1>1 DEF OutboxInv, TextInv, LiveYieldsToFinal, EveryChunkOnce
<1>3. DoneIsLive' /\ InputFits'
  BY <1>1 DEF OutboxInv, TextInv, DoneIsLive, InputFits
<1>4. \A c \in due : c \in Chunk /\ MeetingOf[c] \in Meeting
  BY Constants DEF OutboxInv, TypeOK
<1>5. QueuedFirst'
  BY <1>1, <1>4 DEF OutboxInv, TextInv, QueuedFirst
<1>6. QED
  BY <1>2, <1>3, <1>5 DEF TextInv

LEMMA TextKept ==
  ASSUME OutboxAssumption, OutboxInv, UNCHANGED <<status, queue, audio, live, finalText, task>>,
         \A c \in Chunk : row'[c] = "done" => row[c] = "done"
  PROVE  TextInv'
BY TextMoved

(* ... and what neither claims nor ends a job leaves running rows owned. *)
LEMMA OwnersKept ==
  ASSUME OutboxInv, UNCHANGED recovery,
         \A g \in Clients : disp[g].job # NoJob => disp'[g].job = disp[g].job,
         \A c \in Chunk : row'[c] = "running" => row[c] = "running",
         NoJob \notin Chunk
  PROVE  RunningIsOwned'
BY DEF OutboxInv, RunningIsOwned

(***************************************************************************)
(* The recording side.                                                     *)
(***************************************************************************)

LEMMA RecordingKeeps ==
  ASSUME OutboxAssumption, OutboxInv, NEW c \in Chunk,
         ChunkPersisted(c) \/ EnqueueLiveTranscriptionChunk(c) \/ AudioRemoved(c)
  PROVE  OutboxInv'
<1> USE Constants, PermitKept, OwnersKept
<1> USE DEF queue, shared, process, outbox
<1>1. CASE ChunkPersisted(c)
  <2>1. TypeOK'
    BY <1>1 DEF ChunkPersisted, OutboxInv, TypeOK
  <2>2. PermitHeld' /\ RunningIsOwned'
    BY <1>1 DEF ChunkPersisted
  <2>3. \A m : FinalRowsExist(m)' <=> FinalRowsExist(m)
    BY <1>1 DEF ChunkPersisted, FinalRowsExist
  <2>5. EveryChunkOnce'
    BY <1>1, <2>3 DEF ChunkPersisted, OutboxInv, TextInv, EveryChunkOnce
  <2>6. LiveYieldsToFinal' /\ DoneIsLive' /\ InputFits' /\ QueuedFirst'
    BY <1>1, <2>3
    DEF ChunkPersisted, OutboxInv, TextInv, LiveYieldsToFinal, DoneIsLive, InputFits, QueuedFirst
  <2>7. QED
    BY <2>1, <2>2, <2>5, <2>6 DEF OutboxInv, TextInv
<1>2. CASE EnqueueLiveTranscriptionChunk(c)
  <2>1. /\ UNCHANGED <<status, flushed, queue, audio, live, finalText, shared, process, disp, task>>
        /\ pending' = pending \ {c} /\ faults' \in 0 .. MaxFaults
        /\ row' = row \/ row' = PersistQueued(c)
    BY <1>2 DEF EnqueueLiveTranscriptionChunk, Fault, OutboxInv, TypeOK
  <2>2. /\ row' \in [Chunk -> {"none", "queued", "running", "done", "failed"}]
        /\ \A d \in Chunk : /\ row'[d] = "running" <=> row[d] = "running"
                            /\ row'[d] = "done" <=> row[d] = "done"
    BY <2>1, RowWrites DEF OutboxInv, TypeOK
  <2>3. TypeOK'
    BY <2>1, <2>2 DEF OutboxInv, TypeOK
  <2>4. PermitHeld' /\ RunningIsOwned' /\ TextInv'
    BY <2>1, <2>2, TextKept
  <2>5. QED
    BY <2>3, <2>4 DEF OutboxInv
<1>3. CASE AudioRemoved(c)
  <2>1. TypeOK'
    BY <1>3 DEF AudioRemoved, OutboxInv, TypeOK
  <2>2. PermitHeld' /\ RunningIsOwned'
    BY <1>3 DEF AudioRemoved
  <2>3. \A m : FinalRowsExist(m)' <=> FinalRowsExist(m)
    BY <1>3 DEF AudioRemoved, FinalRowsExist
  <2>4. LiveYieldsToFinal' /\ EveryChunkOnce'
    BY <1>3, <2>3 DEF AudioRemoved, OutboxInv, TextInv, LiveYieldsToFinal, EveryChunkOnce
  <2>5. DoneIsLive' /\ InputFits' /\ QueuedFirst'
    BY <1>3, <2>3 DEF AudioRemoved, OutboxInv, TextInv, DoneIsLive, InputFits, QueuedFirst, Ended
  <2>6. QED
    BY <2>1, <2>2, <2>4, <2>5 DEF OutboxInv, TextInv
<1>4. QED
  BY <1>1, <1>2, <1>3

(* What is stored becomes due with the job, of which there is no task and no    *)
(* transcript before.                                                           *)
LEMMA EnqueueKeeps ==
  ASSUME OutboxAssumption, OutboxInv, NEW m \in Meeting, EnqueueSummaryJob(m),
         UNCHANGED <<audio, live, finalText, task, row>>,
         \A k \in Meeting : status[k] \in Ended => status'[k] \in Ended
  PROVE  TextInv' /\ job' \subseteq Meeting /\ due' \subseteq Chunk
<1>1. \A k : FinalRowsExist(k)' <=> FinalRowsExist(k)
  BY DEF FinalRowsExist
<1>2. /\ job' = job \cup {m}
      /\ \A c \in due' : c \in due \/ (m \notin job /\ c \in ChunksOf(m) \cap audio)
  BY DEF EnqueueSummaryJob
<1>3. /\ due' \subseteq Chunk /\ job' \subseteq Meeting
      /\ \A c \in due' : c \in Chunk /\ MeetingOf[c] \in Meeting
  BY <1>2, Constants DEF OutboxInv, TypeOK
<1>4. m \notin job => task[m].at = "none" /\ ~FinalRowsExist(m)
  BY DEF OutboxInv, TextInv, QueuedFirst
<1>5. EveryChunkOnce'
  <2>1. ASSUME NEW c \in due' \ Silent, FinalRowsExist(MeetingOf[c])' PROVE finalText'[c] = 1
    <3>1. c \in due
      BY <1>1, <1>2, <1>3, <1>4, <2>1, Constants
    <3>2. QED
      BY <1>1, <2>1, <3>1 DEF OutboxInv, TextInv, EveryChunkOnce
  <2>2. QED
    BY <2>1 DEF OutboxInv, TextInv, EveryChunkOnce
<1>6. LiveYieldsToFinal' /\ DoneIsLive' /\ InputFits'
  BY <1>1 DEF OutboxInv, TextInv, LiveYieldsToFinal, DoneIsLive, InputFits
<1>7. QueuedFirst'
  <2>1. \A k \in Meeting : task'[k].at # "none" \/ FinalRowsExist(k)' => k \in job'
    BY <1>1, <1>2 DEF OutboxInv, TextInv, QueuedFirst
  <2>2. \A c \in due' : status'[MeetingOf[c]] \notin Ended => c \in audio'
    BY <1>2, <1>3 DEF OutboxInv, TextInv, QueuedFirst
  <2>3. ASSUME NEW k \in Meeting, task'[k].at \in Listed, NEW c \in due' \cap ChunksOf(k)
        PROVE  c \in task'[k].heard
    <3>1. c \in due
      BY <1>2, <1>3, <1>4, <2>3, Constants DEF Listed
    <3>2. QED
      BY <2>3, <3>1 DEF OutboxInv, TextInv, QueuedFirst
  <2>4. QED
    BY <2>1, <2>2, <2>3 DEF QueuedFirst, ChunksOf
<1>8. QED
  BY <1>3, <1>5, <1>6, <1>7 DEF TextInv

LEMMA StoppingKeeps ==
  ASSUME OutboxAssumption, OutboxInv, NEW m \in Meeting, StopMeeting(m) \/ FinalFlush(m)
  PROVE  OutboxInv'
<1> USE DEF shared, process, outbox
<1>1. /\ status' \in [Meeting -> {"recording", "stopping", "transcribing", "posted", "failed"}]
      /\ \A k \in Meeting : status[k] \in Ended => status'[k] \in Ended
  BY DEF StopMeeting, FinalFlush, Stopped, OutboxInv, TypeOK, Ended
<1>2. /\ flushed' \subseteq Meeting /\ faults' \in 0 .. MaxFaults
      /\ UNCHANGED <<audio, pending, outbox, finalText, shared, process, disp, task>>
  BY Constants DEF StopMeeting, FinalFlush, Fault, OutboxInv, TypeOK
<1>3. PermitHeld' /\ RunningIsOwned'
  BY <1>2, Constants, PermitKept, OwnersKept
<1>4. CASE EnqueueSummaryJob(m)
  <2>1. TextInv' /\ job' \subseteq Meeting /\ due' \subseteq Chunk
    BY <1>1, <1>2, <1>4, EnqueueKeeps
  <2>2. TypeOK'
    BY <1>1, <1>2, <2>1 DEF OutboxInv, TypeOK
  <2>3. QED
    BY <1>3, <2>1, <2>2 DEF OutboxInv
<1>5. CASE UNCHANGED queue
  <2>1. TextInv'
    BY <1>1, <1>2, <1>5, TextMoved
  <2>2. TypeOK'
    BY <1>1, <1>2, <1>5 DEF OutboxInv, TypeOK, queue
  <2>3. QED
    BY <1>3, <2>1, <2>2 DEF OutboxInv
<1>6. QED
  BY <1>4, <1>5 DEF StopMeeting, FinalFlush

(***************************************************************************)
(* The dispatcher.                                                         *)
(***************************************************************************)

AtJob == {"admit", "infer", "write", "mark", "requeue"}

(* A dispatcher that has a job goes on with it. *)
LEMMA GoesOn ==
  ASSUME OutboxInv, NEW g \in Clients, NEW pc \in AtJob, disp[g].at \in AtJob, Goto(g, pc),
         UNCHANGED <<active, gateway>>
  PROVE  /\ PermitHeld'
         /\ disp' \in [Clients -> [at : Points, job : Chunk \cup {NoJob}]]
         /\ \A h \in Clients : disp'[h].job = disp[h].job
<1>1. /\ disp' \in [Clients -> [at : Points, job : Chunk \cup {NoJob}]]
      /\ disp'[g].at = pc /\ disp'[g].job = disp[g].job
      /\ \A h \in Clients : h # g => disp'[h] = disp[h]
  BY DispatchMoves DEF AtJob, Points, OutboxInv
<1>2. PermitHeld'
  BY <1>1 DEF OutboxInv, PermitHeld, Busy, AtJob
<1>3. QED
  BY <1>1, <1>2

(* A dispatcher is done: nobody else had a job, so that a row may still be      *)
(* running only if a recovery is asked for.                                     *)
LEMMA GoesIdle ==
  ASSUME OutboxAssumption, OutboxInv, NEW g \in Clients, Busy(g), Finish(g), UNCHANGED gateway
  PROVE  /\ PermitHeld'
         /\ disp' \in [Clients -> [at : Points, job : Chunk \cup {NoJob}]]
         /\ active' = FALSE
         /\ recovery' \/ (\A c \in Chunk : row'[c] # "running") => RunningIsOwned'
         /\ \A c \in Chunk : row[c] = "running" => recovery \/ c = disp[g].job
<1>1. /\ disp' \in [Clients -> [at : Points, job : Chunk \cup {NoJob}]]
      /\ disp'[g].at = "idle" /\ disp'[g].job = NoJob /\ active' = FALSE
      /\ \A h \in Clients : h # g => disp'[h] = disp[h]
  BY DispatchMoves DEF OutboxInv
<1>2. \A h \in Clients : h # g => ~Busy(h)
  BY DEF OutboxInv, PermitHeld
<1>3. PermitHeld'
  BY <1>1, <1>2 DEF OutboxInv, PermitHeld, Busy
<1>4. \A c \in Chunk : row[c] = "running" => recovery \/ c = disp[g].job
  BY <1>2, Constants DEF OutboxInv, RunningIsOwned, PermitHeld
<1>5. recovery' \/ (\A c \in Chunk : row'[c] # "running") => RunningIsOwned'
  BY DEF RunningIsOwned
<1>6. QED
  BY <1>1, <1>3, <1>4, <1>5

LEMMA AcquireKeeps ==
  ASSUME OutboxAssumption, OutboxInv, NEW g \in Clients, TryAcquire(g)
  PROVE  OutboxInv'
<1> USE DEF queue, shared, process, outbox
<1>1. /\ disp' \in [Clients -> [at : Points, job : Chunk \cup {NoJob}]]
      /\ disp'[g].at = "claim" /\ disp'[g].job = disp[g].job
      /\ \A h \in Clients : h # g => disp'[h] = disp[h]
  BY DispatchMoves DEF TryAcquire, Points, OutboxInv
<1>2. TypeOK'
  BY <1>1 DEF TryAcquire, OutboxInv, TypeOK
<1>3. ~active /\ active' /\ disp[g].at = "idle" /\ UNCHANGED gateway
  BY DEF TryAcquire
<1>4. \A h \in Clients : ~Busy(h)
  BY <1>3 DEF OutboxInv, PermitHeld
<1>5. PermitHeld'
  BY <1>1, <1>3, <1>4 DEF OutboxInv, PermitHeld, Busy
<1>6. RunningIsOwned' /\ TextInv'
  BY <1>1, Constants, OwnersKept, TextKept DEF TryAcquire
<1>7. QED
  BY <1>2, <1>5, <1>6 DEF OutboxInv

(* The claim: the dispatcher that claims is the only one at work, so that no   *)
(* row is running but those the recovery takes back first.                     *)
LEMMA ClaimKeeps ==
  ASSUME OutboxAssumption, OutboxInv, NEW g \in Clients, ClaimNextLiveTranscriptionJob(g)
  PROVE  OutboxInv'
<1> USE DEF queue, shared, process, outbox
<1> DEFINE r == IF recovery THEN RecoverInterrupted(row) ELSE row
           c == NextQueued(r)
           Rows == [Chunk -> {"none", "queued", "running", "done", "failed"}]
<1>1. /\ disp[g].at = "claim" /\ Busy(g) /\ disp[g].job = NoJob
      /\ UNCHANGED <<status, flushed, queue, audio, pending, live, finalText, process, task>>
  BY DEF ClaimNextLiveTranscriptionJob, Busy, OutboxInv, PermitHeld
<1>2. \A h \in Clients : h # g => ~Busy(h)
  BY <1>1 DEF OutboxInv, PermitHeld
<1>3. /\ r \in Rows
      /\ \A d \in Chunk : r[d] # "running" /\ (r[d] = "done" <=> row[d] = "done")
  <2>1. ~recovery => \A d \in Chunk : row[d] # "running"
    BY <1>1, <1>2, Constants DEF OutboxInv, RunningIsOwned, PermitHeld
  <2>2. QED
    BY <2>1, RowWrites DEF OutboxInv, TypeOK
<1>4. Fault => faults' \in 0 .. MaxFaults
  BY Constants DEF Fault, OutboxInv, TypeOK
<1> HIDE DEF r
<1>5. Queued(r) # {} => c \in Chunk /\ r[c] = "queued"
  BY NextIsQueued
<1> HIDE DEF c
<1>6. CASE /\ Finish(g) /\ row' \in {row, r} /\ (row' = r \/ recovery')
           /\ recovery' \in BOOLEAN /\ faults' \in 0 .. MaxFaults
  <2>1. row' \in Rows /\ \A d \in Chunk : row'[d] = "done" => row[d] = "done"
    BY <1>3, <1>6 DEF OutboxInv, TypeOK
  <2>2. PermitHeld' /\ RunningIsOwned' /\ TypeOK'
    BY <1>1, <1>3, <1>6, <2>1, GoesIdle DEF OutboxInv, TypeOK
  <2>3. TextInv'
    BY <1>1, <2>1, TextKept
  <2>4. QED
    BY <2>2, <2>3 DEF OutboxInv
<1>7. CASE /\ Finish(g) /\ c \in Chunk
           /\ \/ row' = [r EXCEPT ![c] = "failed"]
              \/ row' = [r EXCEPT ![c] = "running"] /\ recovery'
           /\ recovery' \in BOOLEAN /\ faults' \in 0 .. MaxFaults
  <2>1. /\ row' \in Rows /\ \A d \in Chunk : row'[d] = "done" => row[d] = "done"
        /\ recovery' \/ \A d \in Chunk : row'[d] # "running"
    BY <1>3, <1>7
  <2>2. PermitHeld' /\ RunningIsOwned' /\ TypeOK'
    BY <1>1, <1>7, <2>1, GoesIdle DEF OutboxInv, TypeOK
  <2>3. TextInv'
    BY <1>1, <2>1, TextKept
  <2>4. QED
    BY <2>2, <2>3 DEF OutboxInv
<1>8. CASE /\ c \in Chunk /\ row' = [r EXCEPT ![c] = "running"] /\ recovery' = FALSE
           /\ disp' = [disp EXCEPT ![g] = [at |-> "admit", job |-> c]]
           /\ UNCHANGED <<active, faults>>
  <2>1. /\ row' \in Rows
        /\ \A d \in Chunk : /\ row'[d] = "done" => row[d] = "done"
                            /\ row'[d] = "running" => d = c
    BY <1>3, <1>8
  <2>2. /\ disp' \in [Clients -> [at : Points, job : Chunk \cup {NoJob}]]
        /\ disp'[g].at = "admit" /\ disp'[g].job = c
        /\ \A h \in Clients : h # g => disp'[h] = disp[h]
    BY <1>8 DEF OutboxInv, TypeOK, Points
  <2>3. TypeOK'
    BY <1>1, <1>8, <2>1, <2>2 DEF OutboxInv, TypeOK
  <2>4. PermitHeld'
    BY <1>1, <1>2, <1>8, <2>2, Constants DEF OutboxInv, PermitHeld, Busy
  <2>5. RunningIsOwned'
    BY <2>1, <2>2 DEF RunningIsOwned
  <2>6. TextInv'
    BY <1>1, <2>1, TextKept
  <2>7. QED
    BY <2>3, <2>4, <2>5, <2>6 DEF OutboxInv
<1>9. QED
  <2>1. CASE Fault /\ recovery /\ UNCHANGED <<recovery, row>> /\ Finish(g)
    BY <1>4, <1>6, <2>1
  <2>2. CASE Queued(r) = {} /\ row' = r /\ recovery' = FALSE /\ Finish(g) /\ UNCHANGED faults
    BY <1>6, <2>2 DEF OutboxInv, TypeOK
  <2>3. CASE /\ Queued(r) # {} /\ c \in audio
             /\ row' = [r EXCEPT ![c] = "running"] /\ recovery' = FALSE
             /\ disp' = [disp EXCEPT ![g] = [at |-> "admit", job |-> c]]
             /\ UNCHANGED <<active, faults>>
    BY <1>5, <1>8, <2>3
  <2>4. CASE /\ Queued(r) # {} /\ row' = [r EXCEPT ![c] = "failed"]
             /\ recovery' = FALSE /\ Finish(g) /\ UNCHANGED faults
    BY <1>5, <1>7, <2>4 DEF OutboxInv, TypeOK
  <2>5. CASE /\ Queued(r) # {} /\ Fault
             /\ row' \in {r, [r EXCEPT ![c] = "running"]}
             /\ recovery' = TRUE /\ Finish(g)
    BY <1>4, <1>5, <1>6, <1>7, <2>5
  <2>6. QED
    BY <2>1, <2>2, <2>3, <2>4, <2>5 DEF ClaimNextLiveTranscriptionJob, r, c

(* A step with the job at hand that ends in another one. *)
LEMMA JobStepKeeps ==
  ASSUME OutboxAssumption, OutboxInv, NEW g \in Clients, NEW pc \in AtJob,
         disp[g].at \in AtJob, Goto(g, pc), faults' \in 0 .. MaxFaults,
         UNCHANGED <<status, flushed, queue, audio, pending, outbox, finalText, shared, process, task>>
  PROVE  OutboxInv'
<1> USE DEF queue, shared, process, outbox
<1>1. PermitHeld' /\ TypeOK'
  BY GoesOn DEF OutboxInv, TypeOK
<1>2. RunningIsOwned' /\ TextInv'
  BY GoesOn, OwnersKept, TextKept, Constants
<1>3. QED
  BY <1>1, <1>2 DEF OutboxInv

LEMMA JobKeeps ==
  ASSUME OutboxAssumption, OutboxInv, NEW g \in Clients, CheckAdmission(g) \/ Infer(g)
  PROVE  OutboxInv'
<1>1. Fault \/ UNCHANGED faults => faults' \in 0 .. MaxFaults
  BY Constants DEF Fault, OutboxInv, TypeOK
<1>2. disp[g].at \in AtJob
  BY DEF CheckAdmission, Infer, AtJob
<1>3. \E pc \in AtJob : Goto(g, pc)
  BY DEF CheckAdmission, Infer, AtJob
<1>4. QED
  BY <1>1, <1>2, <1>3, JobStepKeeps DEF CheckAdmission, Infer

(* The live rows of a chunk are written with the row that says so, under the   *)
(* same lock as the look at the final transcript, ...                          *)
LEMMA LiveRowsWritten ==
  ASSUME OutboxAssumption, OutboxInv, NEW c \in Chunk, PersistLiveTranscriptionSuccess(c),
         ~FinalRowsExist(MeetingOf[c]), UNCHANGED <<status, queue, audio, finalText, task>>
  PROVE  /\ TextInv' /\ live' \subseteq Chunk
         /\ row' \in [Chunk -> {"none", "queued", "running", "done", "failed"}]
         /\ \A d \in Chunk : row'[d] = "running" => d # c /\ row[d] = "running"
<1>1. row \in [Chunk -> {"none", "queued", "running", "done", "failed"}] /\ live \subseteq Chunk
  BY DEF OutboxInv, TypeOK
<1>2. /\ row' = [row EXCEPT ![c] = "done"]
      /\ live' \subseteq live \cup {c} /\ live \subseteq live' \cup {c}
      /\ c \notin Silent => c \in live'
  BY DEF PersistLiveTranscriptionSuccess
<1>3. \A m : FinalRowsExist(m)' <=> FinalRowsExist(m)
  BY DEF FinalRowsExist
<1>4. LiveYieldsToFinal' /\ EveryChunkOnce'
  BY <1>2, <1>3 DEF OutboxInv, TextInv, LiveYieldsToFinal, EveryChunkOnce, queue
<1>5. DoneIsLive'
  BY <1>1, <1>2, <1>3 DEF OutboxInv, TextInv, DoneIsLive
<1>6. InputFits' /\ QueuedFirst'
  BY <1>3 DEF OutboxInv, TextInv, InputFits, QueuedFirst, queue
<1>7. QED
  BY <1>1, <1>2, <1>4, <1>5, <1>6 DEF TextInv

(* ... and removed with it. *)
LEMMA LiveRowsRemoved ==
  ASSUME OutboxAssumption, OutboxInv, NEW c \in Chunk, MarkLiveTranscriptionChunkFailed(c),
         UNCHANGED <<status, queue, audio, finalText, task>>
  PROVE  /\ TextInv' /\ live' \subseteq Chunk
         /\ row' \in [Chunk -> {"none", "queued", "running", "done", "failed"}]
         /\ \A d \in Chunk : row'[d] = "running" => d # c /\ row[d] = "running"
<1>1. row \in [Chunk -> {"none", "queued", "running", "done", "failed"}] /\ live \subseteq Chunk
  BY DEF OutboxInv, TypeOK
<1>2. row' = [row EXCEPT ![c] = "failed"] /\ live' = live \ {c}
  BY DEF MarkLiveTranscriptionChunkFailed
<1>3. \A m : FinalRowsExist(m)' <=> FinalRowsExist(m)
  BY DEF FinalRowsExist
<1>4. LiveYieldsToFinal' /\ EveryChunkOnce'
  BY <1>2, <1>3 DEF OutboxInv, TextInv, LiveYieldsToFinal, EveryChunkOnce, queue
<1>5. DoneIsLive' /\ InputFits' /\ QueuedFirst'
  BY <1>1, <1>2, <1>3 DEF OutboxInv, TextInv, DoneIsLive, InputFits, QueuedFirst, queue
<1>6. QED
  BY <1>1, <1>2, <1>4, <1>5 DEF TextInv

LEMMA JobInHand ==
  ASSUME OutboxInv, NEW g \in Clients, disp[g].at \in AtJob
  PROVE  disp[g].job \in Chunk /\ Busy(g)
BY DEF OutboxInv, TypeOK, PermitHeld, Busy, AtJob

LEMMA WriteKeeps ==
  ASSUME OutboxAssumption, OutboxInv, NEW g \in Clients, WriteLiveResult(g)
  PROVE  OutboxInv'
<1> USE DEF queue, shared, process, outbox
<1> DEFINE c == disp[g].job
<1>1. /\ disp[g].at \in AtJob /\ c \in Chunk /\ Busy(g)
      /\ UNCHANGED <<status, flushed, queue, audio, pending, finalText, recovery, process, task>>
  BY JobInHand DEF WriteLiveResult, AtJob
<1>2. Fault \/ UNCHANGED faults => faults' \in 0 .. MaxFaults
  BY Constants DEF Fault, OutboxInv, TypeOK
<1>3. faults' \in 0 .. MaxFaults
  BY <1>2 DEF WriteLiveResult
<1>4. CASE (Goto(g, "requeue") \/ Goto(g, "mark")) /\ UNCHANGED <<outbox, active>>
  BY <1>1, <1>3, <1>4, JobStepKeeps DEF AtJob
<1>5. CASE /\ Admitted(MeetingOf[c]) /\ PersistLiveTranscriptionSuccess(c)
           /\ Finish(g) \/ (Goto(g, "mark") /\ UNCHANGED active)
  <2>1. /\ TextInv' /\ live' \subseteq Chunk
        /\ row' \in [Chunk -> {"none", "queued", "running", "done", "failed"}]
        /\ \A d \in Chunk : row'[d] = "running" => d # c /\ row[d] = "running"
    BY <1>1, <1>5, LiveRowsWritten DEF Admitted
  <2>2. CASE Finish(g)
    <3>1. recovery' \/ \A d \in Chunk : row'[d] # "running"
      BY <1>1, <2>1, <2>2, GoesIdle
    <3>2. PermitHeld' /\ RunningIsOwned' /\ TypeOK'
      BY <1>1, <1>3, <2>1, <2>2, <3>1, GoesIdle DEF OutboxInv, TypeOK
    <3>3. QED
      BY <2>1, <3>2 DEF OutboxInv
  <2>3. CASE Goto(g, "mark") /\ UNCHANGED active
    <3>1. PermitHeld' /\ TypeOK'
      BY <1>1, <1>3, <2>1, <2>3, GoesOn DEF AtJob, OutboxInv, TypeOK
    <3>2. RunningIsOwned'
      BY <1>1, <2>1, <2>3, GoesOn, OwnersKept, Constants DEF AtJob
    <3>3. QED
      BY <2>1, <3>1, <3>2 DEF OutboxInv
  <2>4. QED
    BY <1>5, <2>2, <2>3
<1>6. QED
  BY <1>4, <1>5 DEF WriteLiveResult

LEMMA EndKeeps ==
  ASSUME OutboxAssumption, OutboxInv, NEW g \in Clients,
         FailLiveTranscriptionJob(g) \/ RetryLiveTranscriptionJob(g)
  PROVE  OutboxInv'
<1> USE DEF queue, shared, process, outbox
<1> DEFINE c == disp[g].job
<1>1. /\ Finish(g) /\ c \in Chunk /\ Busy(g)
      /\ UNCHANGED <<status, flushed, queue, audio, pending, finalText, process, task>>
  BY JobInHand DEF FailLiveTranscriptionJob, RetryLiveTranscriptionJob, AtJob
<1>a. Fault \/ UNCHANGED faults => faults' \in 0 .. MaxFaults
  BY Constants DEF Fault, OutboxInv, TypeOK
<1>b. recovery' = TRUE \/ UNCHANGED recovery
  BY DEF FailLiveTranscriptionJob, RetryLiveTranscriptionJob
<1>2. faults' \in 0 .. MaxFaults /\ recovery' \in BOOLEAN
  <2>1. recovery \in BOOLEAN
    BY DEF OutboxInv, TypeOK
  <2>2. Fault \/ UNCHANGED faults
    BY DEF FailLiveTranscriptionJob, RetryLiveTranscriptionJob
  <2>3. QED
    BY <1>a, <1>b, <2>1, <2>2
<1>3. ASSUME TextInv', live' \subseteq Chunk,
             row' \in [Chunk -> {"none", "queued", "running", "done", "failed"}],
             recovery' \/ (UNCHANGED recovery
                 /\ \A d \in Chunk : row'[d] = "running" => d # c /\ row[d] = "running")
      PROVE  OutboxInv'
  <2>a. \A d \in Chunk : row[d] = "running" => recovery \/ d = c
    BY <1>1, GoesIdle
  <2>1. recovery' \/ \A d \in Chunk : row'[d] # "running"
    BY <1>3, <2>a
  <2>2. PermitHeld' /\ RunningIsOwned' /\ TypeOK'
    BY <1>1, <1>2, <1>3, <2>1, GoesIdle DEF OutboxInv, TypeOK
  <2>3. QED
    BY <1>3, <2>2 DEF OutboxInv
<1>4. CASE recovery' = TRUE /\ UNCHANGED outbox
  BY <1>1, <1>3, <1>4, TextKept DEF OutboxInv, TypeOK
<1>5. CASE MarkLiveTranscriptionChunkFailed(c) /\ UNCHANGED recovery
  BY <1>1, <1>3, <1>5, LiveRowsRemoved
<1>6. CASE RequeueLiveTranscriptionChunk(c) /\ UNCHANGED <<recovery, live>>
  <2>1. /\ row' \in [Chunk -> {"none", "queued", "running", "done", "failed"}]
        /\ \A d \in Chunk : /\ row'[d] = "running" => d # c /\ row[d] = "running"
                            /\ row'[d] = "done" => row[d] = "done"
    BY <1>1, <1>6 DEF RequeueLiveTranscriptionChunk, OutboxInv, TypeOK
  <2>2. QED
    BY <1>1, <1>3, <1>6, <2>1, TextKept DEF OutboxInv, TypeOK
<1>7. QED
  BY <1>4, <1>5, <1>6 DEF FailLiveTranscriptionJob, RetryLiveTranscriptionJob

LEMMA PanicKeeps ==
  ASSUME OutboxAssumption, OutboxInv, NEW g \in Clients, DispatcherPanics(g)
  PROVE  OutboxInv'
<1> USE DEF queue, shared, process, outbox
<1>1. /\ disp' \in [Clients -> [at : Points, job : Chunk \cup {NoJob}]]
      /\ disp'[g].at = "off" /\ disp'[g].job = NoJob
      /\ \A h \in Clients : h # g => disp'[h] = disp[h]
  BY DEF DispatcherPanics, Idle, OutboxInv, TypeOK, Points
<1>2. /\ Busy(g) /\ recovery' = TRUE /\ active' = FALSE /\ faults' \in 0 .. MaxFaults
      /\ UNCHANGED <<status, flushed, queue, audio, pending, outbox, finalText, process, task>>
  BY Constants DEF DispatcherPanics, Fault, OutboxInv, TypeOK, PermitHeld
<1>3. TypeOK'
  BY <1>1, <1>2 DEF OutboxInv, TypeOK
<1>4. PermitHeld'
  BY <1>1, <1>2 DEF OutboxInv, PermitHeld, Busy
<1>5. RunningIsOwned' /\ TextInv'
  BY <1>2, TextKept DEF RunningIsOwned
<1>6. QED
  BY <1>3, <1>4, <1>5 DEF OutboxInv

(***************************************************************************)
(* Clients and processes.                                                  *)
(***************************************************************************)

(* A new client takes interrupted rows back unless an older one still has the   *)
(* permit, and with it the only job.                                            *)
LEMMA ClientKeeps ==
  ASSUME OutboxAssumption, OutboxInv, BeginShutdown \/ StartClient
  PROVE  OutboxInv'
<1> USE DEF queue, shared, process, outbox
<1>1. CASE BeginShutdown
  <2>1. TypeOK'
    BY <1>1 DEF BeginShutdown, OutboxInv, TypeOK
  <2>2. PermitHeld' /\ RunningIsOwned' /\ TextInv'
    BY <1>1, PermitKept, OwnersKept, TextKept, Constants DEF BeginShutdown
  <2>3. QED
    BY <2>1, <2>2 DEF OutboxInv
<1>2. CASE StartClient
  <2> DEFINE h == gateway + 1
  <2>1. /\ h \in Clients /\ gateway' = h /\ gateway \in Nat
        /\ UNCHANGED <<status, flushed, queue, audio, pending, live, finalText, shared, closing, task,
                       faults>>
    BY <1>2, Constants DEF StartClient, OutboxInv, TypeOK, Clients
  <2>2. /\ disp' \in [Clients -> [at : Points, job : Chunk \cup {NoJob}]]
        /\ disp'[h].at = "idle" /\ disp'[h].job = NoJob
        /\ \A k \in Clients : k # h => disp'[k] = disp[k]
    BY <1>2, <2>1 DEF StartClient, Idle, OutboxInv, TypeOK, Points
  <2>3. /\ row' \in [Chunk -> {"none", "queued", "running", "done", "failed"}]
        /\ \A c \in Chunk : /\ row'[c] = "running" => row[c] = "running"
                            /\ row'[c] = "done" => row[c] = "done"
    BY <1>2, RowWrites DEF StartClient, OutboxInv, TypeOK
  <2>4. TypeOK'
    BY <2>1, <2>2, <2>3 DEF OutboxInv, TypeOK
  <2>5. disp[h].at = "off" /\ disp[h].job = NoJob
    BY <2>1 DEF OutboxInv, PermitHeld, Busy
  <2>6. PermitHeld'
    BY <2>1, <2>2, <2>5, Constants DEF OutboxInv, PermitHeld, Busy
  <2>7. RunningIsOwned'
    BY <2>1, <2>2, <2>3, <2>5, OwnersKept, Constants
  <2>8. TextInv'
    BY <2>1, <2>3, TextKept
  <2>9. QED
    BY <2>4, <2>6, <2>7, <2>8 DEF OutboxInv
<1>3. QED
  BY <1>1, <1>2

LEMMA CrashKeeps ==
  ASSUME OutboxAssumption, OutboxInv, CrashAndRestart
  PROVE  OutboxInv'
<1> DEFINE h == gateway + 1
<1>1. /\ h \in Clients /\ gateway' = h /\ gateway \in Nat /\ row' = RecoverInterrupted(row)
      /\ active' = FALSE /\ recovery' = FALSE /\ pending' = {} /\ flushed' = Meeting
      /\ task' = [m \in Meeting |-> NoTask] /\ closing' \subseteq Clients
      /\ UNCHANGED <<audio, live, finalText, faults>>
  BY Constants DEF CrashAndRestart, OutboxInv, TypeOK, Clients
<1>2. /\ disp' \in [Clients -> [at : Points, job : Chunk \cup {NoJob}]]
      /\ \A k \in Clients : /\ disp'[k].at = (IF k = h THEN "idle" ELSE "off")
                            /\ disp'[k].job = NoJob
  BY DEF CrashAndRestart, Idle, Points
<1>3. status' \in [Meeting -> {"recording", "stopping", "transcribing", "posted", "failed"}]
  BY DEF CrashAndRestart, Stopped, OutboxInv, TypeOK
<1>4. /\ row' \in [Chunk -> {"none", "queued", "running", "done", "failed"}]
      /\ \A c \in Chunk : row'[c] # "running" /\ (row'[c] = "done" => row[c] = "done")
  BY <1>1, RowWrites DEF OutboxInv
<1>5. /\ task' \in [Meeting -> Inputs]
      /\ \A m \in Meeting : task'[m].at = "none" /\ task'[m].live = {} /\ task'[m].done = {}
  BY <1>1 DEF NoTask, Inputs
<1>a. /\ job' = job \cup Unqueued /\ job' \subseteq Meeting /\ due' \subseteq Chunk
      /\ \A c \in due' : c \in due \/ (c \in audio /\ MeetingOf[c] \in Unqueued)
  BY DEF CrashAndRestart, Unqueued, OutboxInv, TypeOK
<1>b. \A c \in due' : c \in Chunk /\ MeetingOf[c] \in Meeting
  BY <1>a, Constants
<1>c. \A m \in Meeting : status[m] \in Ended => status'[m] \in Ended
  BY DEF CrashAndRestart, Ended
<1>6. TypeOK'
  BY <1>1, <1>2, <1>3, <1>4, <1>5, <1>a DEF OutboxInv, TypeOK, Inputs
<1>7. PermitHeld' /\ RunningIsOwned'
  BY <1>1, <1>2, <1>4 DEF PermitHeld, Busy, RunningIsOwned
<1>8. \A m : FinalRowsExist(m)' <=> FinalRowsExist(m)
  BY <1>1 DEF FinalRowsExist
<1>9. LiveYieldsToFinal'
  BY <1>1, <1>8 DEF OutboxInv, TextInv, LiveYieldsToFinal
<1>10. EveryChunkOnce'
  <2>1. ASSUME NEW c \in due' \ Silent, FinalRowsExist(MeetingOf[c]) PROVE c \in due
    <3>1. MeetingOf[c] \in job
      BY <1>b, <2>1 DEF OutboxInv, TextInv, QueuedFirst
    <3>2. QED
      BY <1>a, <2>1, <3>1 DEF Unqueued
  <2>2. QED
    BY <1>1, <1>8, <2>1 DEF OutboxInv, TextInv, EveryChunkOnce
<1>11. DoneIsLive' /\ InputFits'
  BY <1>1, <1>4, <1>5, <1>8 DEF OutboxInv, TextInv, DoneIsLive, InputFits
<1>12. QueuedFirst'
  <2>1. \A m \in Meeting : FinalRowsExist(m)' => m \in job'
    BY <1>8, <1>a DEF OutboxInv, TextInv, QueuedFirst
  <2>2. \A c \in due' : status'[MeetingOf[c]] \notin Ended => c \in audio'
    BY <1>1, <1>a, <1>b, <1>c DEF OutboxInv, TextInv, QueuedFirst
  <2>3. QED
    BY <1>5, <2>1, <2>2 DEF QueuedFirst, Listed
<1>13. QED
  BY <1>6, <1>7, <1>9, <1>10, <1>11, <1>12 DEF OutboxInv, TextInv

(***************************************************************************)
(* The summary task.                                                       *)
(***************************************************************************)

(* What is loaded fits together: a chunk that is done and has speech has live   *)
(* rows; beside a final transcript there are none, and nothing is excluded.     *)
LEMMA InputLoaded ==
  ASSUME OutboxAssumption, OutboxInv, NEW m \in Meeting
  PROVE  /\ SummaryInput(m) \in Inputs
         /\ SummaryInput(m).at = "loaded" /\ SummaryInput(m).heard = task[m].heard
         /\ \A c \in ChunksOf(m) \ Silent :
                c \in SummaryInput(m).live <=> c \in SummaryInput(m).done
<1> DEFINE merged == LiveTranscriptSegments(m)
           done == IF merged = {} THEN {} ELSE CompletedLiveChunks(m)
<1>1. ChunksOf(m) \subseteq Chunk
  BY DEF ChunksOf
<1>2. merged \subseteq Chunk /\ done \subseteq Chunk
  BY <1>1 DEF LiveTranscriptSegments, CompletedLiveChunks
<1>3. ASSUME NEW c \in ChunksOf(m) \ Silent PROVE c \in merged <=> c \in done
  <2>1. CASE FinalRowsExist(m)
    <3>1. \A d \in ChunksOf(m) : d \notin live
      BY <1>1, <2>1, Constants DEF OutboxInv, TextInv, LiveYieldsToFinal
    <3>2. QED
      BY <3>1 DEF LiveTranscriptSegments
  <2>2. CASE ~FinalRowsExist(m)
    <3>1. row[c] = "done" => c \in live
      BY <1>1, <1>3, <2>2, Constants DEF OutboxInv, TextInv, DoneIsLive
    <3>2. QED
      BY <1>1, <1>3, <3>1 DEF LiveTranscriptSegments, CompletedLiveChunks
  <2>3. QED
    BY <2>1, <2>2
<1>4. task[m] \in Inputs
  BY DEF OutboxInv, TypeOK, Inputs
<1>5. SummaryInput(m) = [task[m] EXCEPT !.at = "loaded", !.live = merged, !.done = done]
  BY DEF SummaryInput
<1> HIDE DEF merged, done
<1>6. QED
  BY <1>2, <1>3, <1>4, <1>5 DEF Inputs

(* The task moves on without writing text. *)
LEMMA TaskMoves ==
  ASSUME OutboxAssumption, OutboxInv, NEW m \in Meeting, NEW input \in Inputs,
         task' = [task EXCEPT ![m] = input], input.at # "none" => m \in job,
         \A c \in ChunksOf(m) \ Silent : c \in input.live <=> c \in input.done,
         input.at \in Listed => due \cap ChunksOf(m) \subseteq input.heard,
         status' \in [Meeting -> {"recording", "stopping", "transcribing", "posted", "failed"}],
         \A k \in Meeting : status[k] \in Ended => status'[k] \in Ended,
         faults' \in 0 .. MaxFaults,
         UNCHANGED <<flushed, queue, audio, pending, outbox, finalText, shared, process, disp>>
  PROVE  OutboxInv'
<1> USE DEF queue, shared, process, outbox
<1>1. task \in [Meeting -> Inputs]
  BY DEF OutboxInv, TypeOK, Inputs
<1>2. TypeOK'
  <2>1. task' \in [Meeting -> Inputs]
    BY <1>1
  <2>2. QED
    BY <2>1 DEF OutboxInv, TypeOK, Inputs
<1>3. PermitHeld' /\ RunningIsOwned'
  BY PermitKept, OwnersKept, Constants
<1>4. \A k : FinalRowsExist(k)' <=> FinalRowsExist(k)
  BY DEF FinalRowsExist
<1>5. LiveYieldsToFinal' /\ EveryChunkOnce' /\ DoneIsLive'
  BY <1>4 DEF OutboxInv, TextInv, LiveYieldsToFinal, EveryChunkOnce, DoneIsLive
<1>6. task'[m] = input /\ \A k \in Meeting : k # m => task'[k] = task[k]
  BY <1>1
<1>7. InputFits'
  BY <1>6 DEF OutboxInv, TextInv, InputFits, ChunksOf
<1>8. \A c \in due : MeetingOf[c] \in Meeting
  BY Constants DEF OutboxInv, TypeOK
<1>9. QueuedFirst'
  BY <1>4, <1>6, <1>8 DEF OutboxInv, TextInv, QueuedFirst, ChunksOf
<1>10. QED
  BY <1>2, <1>3, <1>5, <1>7, <1>9 DEF OutboxInv, TextInv

(* The list has everything that is due: it is all still stored. *)
LEMMA ListKeeps ==
  ASSUME OutboxAssumption, OutboxInv, NEW m \in Meeting, ListChunks(m)
  PROVE  OutboxInv'
<1> DEFINE final == [task[m] EXCEPT !.at = "final"]
           listed == [task[m] EXCEPT !.at = "listed", !.heard = ChunksOf(m) \cap audio]
<1>1. task \in [Meeting -> Inputs] /\ task[m] = NoTask /\ task[m] \in Inputs
  BY DEF ListChunks, OutboxInv, TypeOK, Inputs
<1>2. /\ m \in job /\ status[m] = "stopping"
      /\ UNCHANGED <<status, flushed, queue, audio, pending, outbox, finalText, shared, process, disp>>
      /\ Fault \/ UNCHANGED faults
      /\ task' = [task EXCEPT ![m] = final] \/ task' = [task EXCEPT ![m] = listed]
  BY <1>1 DEF ListChunks
<1>3. faults' \in 0 .. MaxFaults
  BY <1>2, Constants DEF Fault, OutboxInv, TypeOK
<1>4. status' \in [Meeting -> {"recording", "stopping", "transcribing", "posted", "failed"}]
  BY <1>2 DEF OutboxInv, TypeOK
<1>5. /\ final \in Inputs /\ final.live = {} /\ final.done = {} /\ final.at = "final"
      /\ listed \in Inputs /\ listed.live = {} /\ listed.done = {}
      /\ listed.heard = ChunksOf(m) \cap audio
  <2>1. ChunksOf(m) \cap audio \subseteq Chunk
    BY DEF ChunksOf
  <2>2. task[m].live = {} /\ task[m].done = {}
    BY <1>1 DEF NoTask
  <2>3. QED
    BY <1>1, <2>1, <2>2 DEF Inputs
<1>6. due \cap ChunksOf(m) \subseteq ChunksOf(m) \cap audio
  BY <1>2 DEF OutboxInv, TextInv, QueuedFirst, ChunksOf, Ended
<1> HIDE DEF final, listed
<1>7. CASE task' = [task EXCEPT ![m] = final]
  BY <1>2, <1>3, <1>4, <1>5, <1>7, TaskMoves DEF Listed
<1>8. CASE task' = [task EXCEPT ![m] = listed]
  BY <1>2, <1>3, <1>4, <1>5, <1>6, <1>8, TaskMoves
<1>9. QED
  BY <1>2, <1>7, <1>8

LEMMA LoadKeeps ==
  ASSUME OutboxAssumption, OutboxInv, NEW m \in Meeting, LoadLiveSegments(m)
  PROVE  OutboxInv'
<1> DEFINE again == [task[m] EXCEPT !.at = "loaded"]
<1>1. task \in [Meeting -> Inputs] /\ task[m] \in Inputs
  BY DEF OutboxInv, TypeOK, Inputs
<1>2. /\ task[m].at = "listed"
      /\ UNCHANGED <<status, flushed, queue, audio, pending, outbox, finalText, shared, process, disp>>
      /\ Fault \/ UNCHANGED faults
      /\ task' = [task EXCEPT ![m] = SummaryInput(m)] \/ task' = [task EXCEPT ![m] = again]
  BY DEF LoadLiveSegments
<1>3. faults' \in 0 .. MaxFaults
  BY <1>2, Constants DEF Fault, OutboxInv, TypeOK
<1>4. status' \in [Meeting -> {"recording", "stopping", "transcribing", "posted", "failed"}]
  BY <1>2 DEF OutboxInv, TypeOK
<1>5. /\ again \in Inputs /\ again.live = task[m].live /\ again.done = task[m].done
      /\ again.heard = task[m].heard
  BY <1>1 DEF Inputs
<1>6. /\ m \in job /\ due \cap ChunksOf(m) \subseteq task[m].heard
      /\ \A c \in ChunksOf(m) \ Silent : c \in task[m].live <=> c \in task[m].done
  BY <1>2 DEF OutboxInv, TextInv, QueuedFirst, InputFits, Listed
<1> HIDE DEF again
<1>7. CASE task' = [task EXCEPT ![m] = SummaryInput(m)]
  BY <1>2, <1>3, <1>4, <1>6, <1>7, InputLoaded, TaskMoves
<1>8. CASE task' = [task EXCEPT ![m] = again]
  BY <1>2, <1>3, <1>4, <1>5, <1>6, <1>8, TaskMoves
<1>9. QED
  BY <1>2, <1>7, <1>8

LEMMA TaskEndsKeep ==
  ASSUME OutboxAssumption, OutboxInv, NEW m \in Meeting, FinishSummary(m) \/ RetrySummary(m)
  PROVE  OutboxInv'
<1>1. NoTask \in Inputs /\ NoTask.at = "none" /\ NoTask.live = {} /\ NoTask.done = {}
  BY DEF Inputs, NoTask
<1>2. /\ task' = [task EXCEPT ![m] = NoTask]
      /\ \E value \in {"posted", "stopping"} :
             status' = [status EXCEPT ![m] = IF @ = "transcribing" THEN value ELSE @]
      /\ UNCHANGED <<flushed, queue, audio, pending, outbox, finalText, shared, process, disp>>
  BY DEF FinishSummary, RetrySummary
<1>3. /\ status' \in [Meeting -> {"recording", "stopping", "transcribing", "posted", "failed"}]
      /\ \A k \in Meeting : status[k] \in Ended => status'[k] \in Ended
  BY <1>2 DEF OutboxInv, TypeOK, Ended
<1>4. faults' \in 0 .. MaxFaults
  BY Constants DEF FinishSummary, RetrySummary, Fault, OutboxInv, TypeOK
<1>5. QED
  BY <1>1, <1>2, <1>3, <1>4, TaskMoves DEF Listed

LEMMA TranscribingKeeps ==
  ASSUME OutboxAssumption, OutboxInv, NEW m \in Meeting, SetTranscribing(m)
  PROVE  OutboxInv'
<1> DEFINE on == [task[m] EXCEPT !.at = IF @ = "final" THEN "written" ELSE "hearing"]
<1>1. task \in [Meeting -> Inputs] /\ task[m] \in Inputs /\ task[m].at \in {"loaded", "final"}
  BY DEF SetTranscribing, OutboxInv, TypeOK, Inputs
<1>2. /\ on \in Inputs /\ on.live = task[m].live /\ on.done = task[m].done
      /\ on.heard = task[m].heard /\ (on.at \in Listed => task[m].at \in Listed)
      /\ NoTask \in Inputs /\ NoTask.at = "none" /\ NoTask.live = {} /\ NoTask.done = {}
  BY <1>1 DEF Inputs, NoTask, Listed
<1>3. /\ UNCHANGED <<flushed, queue, audio, pending, outbox, finalText, shared, process, disp, faults>>
      /\ \/ task' = [task EXCEPT ![m] = on]
         \/ task' = [task EXCEPT ![m] = NoTask]
  BY DEF SetTranscribing
<1>4. /\ status' \in [Meeting -> {"recording", "stopping", "transcribing", "posted", "failed"}]
      /\ \A k \in Meeting : status[k] \in Ended => status'[k] \in Ended
      /\ faults' \in 0 .. MaxFaults
  BY <1>3 DEF SetTranscribing, OutboxInv, TypeOK, Ended
<1>5. /\ m \in job /\ (task[m].at \in Listed => due \cap ChunksOf(m) \subseteq task[m].heard)
      /\ \A c \in ChunksOf(m) \ Silent : c \in task[m].live <=> c \in task[m].done
  BY <1>1 DEF OutboxInv, TextInv, QueuedFirst, InputFits
<1> HIDE DEF on
<1>6. CASE task' = [task EXCEPT ![m] = on]
  BY <1>2, <1>3, <1>4, <1>5, <1>6, TaskMoves
<1>7. CASE task' = [task EXCEPT ![m] = NoTask]
  BY <1>2, <1>3, <1>4, <1>7, TaskMoves DEF Listed
<1>8. QED
  BY <1>3, <1>6, <1>7

(* The final transcript is written: of each stored chunk with speech either the *)
(* live segments or the new transcription is in it, and never both.             *)
LEMMA PersistKeeps ==
  ASSUME OutboxAssumption, OutboxInv, NEW m \in Meeting, PersistTranscriptSegments(m)
  PROVE  OutboxInv'
<1> USE DEF queue, shared, process, outbox
<1> DEFINE text == FinalSegments(m)
           written == [task[m] EXCEPT !.at = "written"]
<1>1. /\ task[m].at = "hearing"
      /\ task' = [task EXCEPT ![m] = written]
      /\ UNCHANGED <<status, flushed, queue, audio, pending, row, shared, process, disp, faults>>
  BY DEF PersistTranscriptSegments
<1>2. task \in [Meeting -> Inputs] /\ task[m] \in Inputs
  BY DEF OutboxInv, TypeOK, Inputs
<1>3. /\ written \in Inputs /\ written.at = "written"
      /\ written.live = task[m].live /\ written.done = task[m].done
  BY <1>1, <1>2 DEF Inputs
<1>4. /\ m \in job /\ due \cap ChunksOf(m) \subseteq task[m].heard
      /\ \A c \in ChunksOf(m) \ Silent : c \in task[m].live <=> c \in task[m].done
  BY <1>1 DEF OutboxInv, TextInv, QueuedFirst, InputFits, Listed
<1> HIDE DEF written
<1>5. CASE UNCHANGED <<finalText, live>>
  <2>1. /\ status' \in [Meeting -> {"recording", "stopping", "transcribing", "posted", "failed"}]
        /\ faults' \in 0 .. MaxFaults
    BY <1>1 DEF OutboxInv, TypeOK
  <2>2. QED
    BY <1>1, <1>3, <1>4, <1>5, <2>1, TaskMoves DEF Listed
<1>6. CASE /\ \E c \in ChunksOf(m) : text[c] > 0
           /\ finalText' = [c \in Chunk |-> IF c \in ChunksOf(m) THEN text[c] ELSE finalText[c]]
           /\ live' = live \ ChunksOf(m)
  <2>1. ChunksOf(m) \subseteq Chunk
    BY DEF ChunksOf
  <2>2. \A c \in ChunksOf(m) :
          /\ text[c] \in 0 .. 2
          /\ text[c] = (IF c \in task[m].live THEN 1 ELSE 0)
                       + (IF c \in (task[m].heard \ task[m].done) \ Silent THEN 1 ELSE 0)
    BY DEF FinalSegments
  <2>3. \A c \in ChunksOf(m) : /\ text[c] <= 1
                               /\ c \in due \ Silent => text[c] = 1
    BY <1>4, <2>2
  <2> HIDE DEF text
  <2>4. finalText' \in [Chunk -> 0 .. 2]
    BY <1>6, <2>1, <2>2 DEF OutboxInv, TypeOK
  <2>5. FinalRowsExist(m)'
    BY <1>6, <2>1 DEF FinalRowsExist
  <2>6. ASSUME NEW k \in Meeting, k # m PROVE FinalRowsExist(k)' <=> FinalRowsExist(k)
    <3>1. \A c \in ChunksOf(k) : c \in Chunk /\ c \notin ChunksOf(m)
      BY <2>6 DEF ChunksOf
    <3>2. \A c \in ChunksOf(k) : finalText'[c] = finalText[c]
      BY <1>6, <3>1
    <3>3. QED
      BY <3>2 DEF FinalRowsExist
  <2>7. TypeOK'
    <3>1. task' \in [Meeting -> Inputs]
      BY <1>1, <1>2, <1>3
    <3>2. QED
      BY <1>1, <1>6, <2>4, <3>1 DEF OutboxInv, TypeOK, Inputs
  <2>8. PermitHeld' /\ RunningIsOwned'
    BY <1>1, PermitKept, OwnersKept, Constants
  <2>9. LiveYieldsToFinal'
    <3>1. \A c \in live' : c \in live /\ c \in Chunk /\ MeetingOf[c] \in Meeting /\ MeetingOf[c] # m
      BY <1>6, Constants DEF OutboxInv, TypeOK
    <3>2. QED
      BY <2>6, <3>1 DEF OutboxInv, TextInv, LiveYieldsToFinal
  <2>10. EveryChunkOnce'
    <3>1. ASSUME NEW c \in Chunk
          PROVE  /\ finalText'[c] <= 1
                 /\ c \in due \ Silent /\ FinalRowsExist(MeetingOf[c])' => finalText'[c] = 1
      <4>1. CASE c \in ChunksOf(m)
        <5>1. finalText'[c] = text[c]
          BY <1>6, <3>1, <4>1
        <5>2. text[c] <= 1 /\ (c \in due \ Silent => text[c] = 1)
          BY <2>3, <4>1
        <5>3. QED
          BY <5>1, <5>2
      <4>2. CASE c \notin ChunksOf(m)
        <5>1. MeetingOf[c] \in Meeting /\ MeetingOf[c] # m /\ finalText'[c] = finalText[c]
          BY <1>6, <4>2, Constants
        <5>2. QED
          BY <2>6, <5>1 DEF OutboxInv, TextInv, EveryChunkOnce
      <4>3. QED
        BY <4>1, <4>2
    <3>2. due' = due /\ due \subseteq Chunk
      BY <1>1 DEF OutboxInv, TypeOK
    <3>3. QED
      BY <3>1, <3>2 DEF EveryChunkOnce
  <2>11. DoneIsLive'
    BY <1>1, <1>6, <2>5, <2>6, Constants DEF OutboxInv, TextInv, DoneIsLive
  <2>12. InputFits' /\ QueuedFirst'
    <3>1. task'[m] = written /\ \A k \in Meeting : k # m => task'[k] = task[k]
      BY <1>1, <1>2
    <3>2. InputFits'
      BY <1>3, <1>4, <3>1 DEF OutboxInv, TextInv, InputFits, ChunksOf
    <3>3. \A c \in due : MeetingOf[c] \in Meeting
      BY Constants DEF OutboxInv, TypeOK
    <3>4. QueuedFirst'
      BY <1>1, <1>3, <1>4, <2>6, <3>1, <3>3 DEF OutboxInv, TextInv, QueuedFirst, ChunksOf, Listed
    <3>5. QED
      BY <3>2, <3>4
  <2>13. QED
    BY <2>7, <2>8, <2>9, <2>10, <2>11, <2>12 DEF OutboxInv, TextInv
<1>7. QED
  BY <1>5, <1>6 DEF PersistTranscriptSegments

(***************************************************************************)
(* The theorems.                                                           *)
(***************************************************************************)

LEMMA OutboxStep ==
  ASSUME OutboxAssumption, OutboxInv, [Next]_vars
  PROVE  OutboxInv'
<1>1. CASE UNCHANGED vars
  <2>1. TypeOK'
    BY <1>1 DEF vars, OutboxInv, TypeOK
  <2>2. PermitHeld' /\ RunningIsOwned' /\ TextInv'
    BY <1>1, PermitKept, OwnersKept, TextKept, Constants DEF vars, queue
  <2>3. QED
    BY <2>1, <2>2 DEF OutboxInv
<1>2. QED
  BY <1>1, RecordingKeeps, StoppingKeeps, AcquireKeeps, ClaimKeeps, JobKeeps, WriteKeeps, EndKeeps,
     PanicKeeps, ClientKeeps, CrashKeeps, ListKeeps, LoadKeeps, TranscribingKeeps, PersistKeeps,
     TaskEndsKeep
  DEF Next, Dispatch, Summarize

LEMMA OutboxInit ==
  ASSUME OutboxAssumption, Init
  PROVE  OutboxInv
<1>1. /\ disp \in [Clients -> [at : Points, job : Chunk \cup {NoJob}]]
      /\ \A g \in Clients : /\ disp[g].at = (IF g = 1 THEN "idle" ELSE "off")
                            /\ disp[g].job = NoJob
  BY DEF Init, Idle, Points
<1>2. task \in [Meeting -> Inputs] /\ \A m \in Meeting : /\ task[m].at = "none"
                                                          /\ task[m].live = {} /\ task[m].done = {}
  BY DEF Init, NoTask, Inputs
<1>3. TypeOK
  <2>1. active \in BOOLEAN /\ recovery \in BOOLEAN
    BY Zenon DEF Init
  <2>2. /\ flushed \subseteq Meeting /\ job \subseteq Meeting /\ due \subseteq Chunk
        /\ audio \subseteq Chunk /\ pending \subseteq audio
        /\ live \subseteq Chunk /\ closing \subseteq Clients
    BY DEF Init
  <2>3. /\ status \in [Meeting -> {"recording", "stopping", "transcribing", "posted", "failed"}]
        /\ row \in [Chunk -> {"none", "queued", "running", "done", "failed"}]
    BY DEF Init
  <2>4. finalText \in [Chunk -> 0 .. 2]
    BY DEF Init
  <2>5. gateway \in Clients /\ faults \in 0 .. MaxFaults
    BY Constants DEF Init, OutboxAssumption, Clients
  <2>6. QED
    BY <1>1, <1>2, <2>1, <2>2, <2>3, <2>4, <2>5, Zenon DEF TypeOK, Inputs
<1>4. PermitHeld /\ RunningIsOwned
  BY <1>1 DEF Init, PermitHeld, Busy, RunningIsOwned
<1>5. \A m : ~FinalRowsExist(m)
  BY DEF Init, FinalRowsExist, ChunksOf
<1>6. TextInv
  BY <1>2, <1>5
  DEF Init, TextInv, LiveYieldsToFinal, EveryChunkOnce, DoneIsLive, InputFits, QueuedFirst, Listed
<1>7. QED
  BY <1>3, <1>4, <1>6 DEF OutboxInv

(* One permit, one job, owned rows, and inputs that fit together, in every      *)
(* state.                                                                       *)
THEOREM OutboxInvariant ==
  ASSUME OutboxAssumption
  PROVE  Spec => []OutboxInv
BY OutboxInit, OutboxStep, PTL DEF Spec

(* No speech is twice in the final transcript and all that was stored when the  *)
(* job was enqueued is in it, although the last flush comes after the job; live *)
(* rows never stand beside it, one inference runs at a time, and no row is left *)
(* running: for every number of chunks, meetings and clients, whatever          *)
(* statements fail, dispatchers panic, tokens change and processes die.         *)
THEOREM SpeechIsOnce ==
  ASSUME OutboxAssumption
  PROVE  Spec => []SpeechOnce
<1>1. OutboxInv => SpeechOnce
  BY DEF OutboxInv, TextInv, PermitHeld, OneInference, SpeechOnce
<1>2. QED
  BY <1>1, OutboxInvariant, PTL
=============================================================================
