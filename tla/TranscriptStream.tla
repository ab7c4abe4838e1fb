-------------------------- MODULE TranscriptStream --------------------------
(***************************************************************************)
(* The stream of a meeting's transcript.  A connection polls: it reads the *)
(* meeting's state and then, in another statement, the rows created since  *)
(* the last one it sent; when the transcript is final it reads everything  *)
(* once more and tells the client to start over.  Meanwhile live chunks    *)
(* are written and written again, the final transcript replaces them, and  *)
(* a failed meeting is retried.                                            *)
(***************************************************************************)
EXTENDS Naturals, FiniteSets

CONSTANTS
  Chunk,      \* live chunks
  Final,      \* stands for the chunk of a final row
  Stream,     \* connections of one user to one meeting
  MaxRows,    \* bound on the rows of a chunk and of the final transcript
  MaxCommits, \* bound on the transactions that write rows
  MaxRetries, \* bound on the administrator's retries
  MaxIdle,    \* TRANSCRIPT_SSE_MAX_IDLE_POLLS
  MaxPerUser, \* TRANSCRIPT_SSE_MAX_PER_USER_MEETING
  Start       \* the status of the meeting at first

BoundsAssumption ==
  /\ MaxIdle \in Nat \ {0} /\ MaxPerUser \in Nat \ {0} /\ Final \notin Chunk
  /\ Start \in {"scheduled", "recording"}

VARIABLES
  status,   \* of the meeting
  rows,     \* transcripts: the chunk, the index in it and created_at
  done,     \* live chunks that are done
  pending,  \* the transaction that writes rows, if one is open
  clock,    \* of the database
  stream,
  count,    \* the limiter's count
  allowed,  \* may the user still read the meeting?
  retries

vars == <<status, rows, done, pending, clock, stream, count, allowed, retries>>

NoWrite == [chunk |-> Final, n |-> 0, at |-> 0]
NoMeta == [final |-> FALSE]
NoStream == [phase |-> "none", meta |-> NoMeta, cursor |-> 0, idle |-> 0, snapshot |-> FALSE,
             shown |-> {}]

Init ==
  /\ status = Start /\ rows = {} /\ done = {} /\ pending = NoWrite /\ clock = 0
  /\ stream = [s \in Stream |-> NoStream] /\ count = 0 /\ allowed = TRUE
  /\ retries = 0

-----------------------------------------------------------------------------
(* The meeting and its rows.                                               *)
StatusMoves ==
  /\ \/ status = "scheduled" /\ status' \in {"recording", "over"}
     \/ status = "recording" /\ status' \in {"stopping", "over"}
     \/ status = "stopping" /\ status' \in {"processing", "over"}
     \/ status = "processing" /\ status' = "over"
  /\ UNCHANGED <<rows, done, pending, clock, stream, count, allowed, retries>>

AdminRetry ==
  /\ status = "over" /\ retries < MaxRetries /\ retries' = retries + 1
  /\ status' = "stopping"
  /\ UNCHANGED <<rows, done, pending, clock, stream, count, allowed>>

HasFinalRows == \E r \in rows : r.chunk = Final
HasLiveRows == \E r \in rows : r.chunk \in done

(* One transaction at a time, under the lock of the service; its rows      *)
(* carry the time at which it began.                                       *)
Begin(c, n) ==
  /\ pending = NoWrite
  /\ clock < MaxCommits /\ clock' = clock + 1
  /\ pending' = [chunk |-> c, n |-> n, at |-> clock']
  /\ UNCHANGED <<status, rows, done, stream, count, allowed, retries>>

LiveBegin(c, n) == status \in {"recording", "stopping"} /\ ~HasFinalRows /\ Begin(c, n)
PersistFinalBegin(n) == status = "processing" /\ Begin(Final, n)

RowsOf(c, n, at) == {[chunk |-> c, i |-> i, at |-> at] : i \in 1 .. n}

(* A chunk's rows are replaced, so that its transaction may be repeated.   *)
PersistLiveSuccess ==
  LET c == pending.chunk IN
  /\ c \in Chunk
  /\ rows' = {r \in rows : r.chunk # c} \cup RowsOf(c, pending.n, pending.at)
  /\ done' = done \cup {c}
  /\ pending' = NoWrite
  /\ UNCHANGED <<status, clock, stream, count, allowed, retries>>

MarkLiveFailed(c) ==
  /\ c \in done /\ pending = NoWrite
  /\ rows' = {r \in rows : r.chunk # c}
  /\ done' = done \ {c}
  /\ UNCHANGED <<status, pending, clock, stream, count, allowed, retries>>

(* A final row that is written again keeps its first time.                 *)
PersistFinalCommit ==
  /\ pending # NoWrite /\ pending.chunk = Final
  /\ rows' = {r \in rows : r.chunk = Final /\ r.i <= pending.n}
             \cup {r \in RowsOf(Final, pending.n, pending.at) :
                     ~ \E q \in rows : q.chunk = Final /\ q.i = r.i}
  /\ pending' = NoWrite
  /\ UNCHANGED <<status, done, clock, stream, count, allowed, retries>>

(* A statement of the transaction fails; a chunk may be tried again.       *)
Rollback ==
  /\ pending # NoWrite /\ pending' = NoWrite
  /\ UNCHANGED <<status, rows, done, clock, stream, count, allowed, retries>>

RetentionDeletes ==
  /\ status = "over" /\ rows # {}
  /\ rows' = {}
  /\ UNCHANGED <<status, done, pending, clock, stream, count, allowed, retries>>

AccessLost ==
  /\ allowed /\ allowed' = FALSE
  /\ UNCHANGED <<status, rows, done, pending, clock, stream, count, retries>>

-----------------------------------------------------------------------------
(* api_transcript_sql: the final rows, or the live rows while there are    *)
(* none.                                                                   *)
Visible == {r \in rows : IF HasFinalRows THEN r.chunk = Final ELSE r.chunk \in done}
After(cursor) == {r \in Visible : r.at > cursor}

(* transcript_metadata_is_final.                                           *)
IsFinal ==
  \/ HasFinalRows
  \/ status = "over"
  \/ ~HasLiveRows /\ status \notin {"recording", "stopping", "processing"}

LastAt(rs, cursor) ==
  IF rs = {} THEN cursor ELSE CHOOSE t \in {r.at : r \in rs} : \A r \in rs : r.at <= t

(* The client replaces rows it knows by their newer versions.              *)
Merged(old, new) ==
  {r \in old : ~ \E q \in new : q.chunk = r.chunk /\ q.i = r.i} \cup new

(* Mutant: an empty poll is not counted.                                   *)
MutNextIdle(idle, empty) == IF empty THEN idle ELSE 0

NextIdle(idle, empty) == IF empty THEN idle + 1 ELSE 0
IdleLimit(idle) == idle >= MaxIdle

-----------------------------------------------------------------------------
Db == <<status, rows, done, pending, clock>>

Open(s) ==
  /\ stream[s].phase = "none" /\ allowed
  /\ IF count < MaxPerUser
     THEN stream' = [stream EXCEPT ![s].phase = "poll"] /\ count' = count + 1
     ELSE stream' = [stream EXCEPT ![s].phase = "refused"] /\ UNCHANGED count
  /\ UNCHANGED <<allowed, retries>> /\ UNCHANGED Db

(* A poll checks the access and reads the meeting's state.                 *)
PollMeta(s) ==
  /\ stream[s].phase = "poll"
  /\ stream' = IF allowed THEN [stream EXCEPT ![s].phase = "segments", ![s].meta = [final |-> IsFinal]]
               ELSE [stream EXCEPT ![s].phase = "finished"]
  /\ UNCHANGED <<count, allowed, retries>> /\ UNCHANGED Db

(* The event that follows a load.                                          *)
Emit(s, rs, final, reset) ==
  LET idle == NextIdle(stream[s].idle, rs = {})
      stop == ~final /\ IdleLimit(idle)
  IN stream' = [stream EXCEPT ![s] =
       [phase |-> IF final \/ stop THEN "finished" ELSE "poll", meta |-> NoMeta,
        cursor |-> LastAt(rs, stream[s].cursor), idle |-> idle, snapshot |-> stream[s].snapshot \/ reset,
        shown |-> IF reset THEN rs ELSE Merged(stream[s].shown, rs)]]

ShouldEmitSnapshot(s) == stream[s].meta.final /\ ~stream[s].snapshot

PollSegments(s) ==
  /\ stream[s].phase = "segments"
  /\ IF ShouldEmitSnapshot(s) THEN stream' = [stream EXCEPT ![s].phase = "snapshot"]
     ELSE Emit(s, After(stream[s].cursor), stream[s].meta.final, FALSE)
  /\ UNCHANGED <<count, allowed, retries>> /\ UNCHANGED Db

SnapshotMeta(s) ==
  /\ stream[s].phase = "snapshot"
  /\ stream' = [stream EXCEPT ![s].phase = "snapshot_segments", ![s].meta = [final |-> IsFinal]]
  /\ UNCHANGED <<count, allowed, retries>> /\ UNCHANGED Db

SnapshotSegments(s) ==
  /\ stream[s].phase = "snapshot_segments"
  /\ Emit(s, Visible, stream[s].meta.final, TRUE)
  /\ UNCHANGED <<count, allowed, retries>> /\ UNCHANGED Db

(* A load that fails in either statement counts as an idle poll; a         *)
(* snapshot that fails starts the count again.                             *)
LoadFails(s) ==
  /\ stream[s].phase \in {"poll", "segments"} /\ allowed
  /\ LET idle == NextIdle(stream[s].idle, TRUE) IN
     stream' = [stream EXCEPT ![s].idle = idle, ![s].meta = NoMeta,
                              ![s].phase = IF IdleLimit(idle) THEN "finished" ELSE "poll"]
  /\ UNCHANGED <<count, allowed, retries>> /\ UNCHANGED Db

SnapshotFails(s) ==
  /\ stream[s].phase \in {"snapshot", "snapshot_segments"}
  /\ stream' = [stream EXCEPT ![s].phase = "poll", ![s].meta = NoMeta, ![s].idle = 0]
  /\ UNCHANGED <<count, allowed, retries>> /\ UNCHANGED Db

IsOpen(s) == stream[s].phase \notin {"none", "refused", "ended"}

(* The stream's state, and the permit in it, is dropped.                   *)
DropPermit == count' = IF count = 0 THEN 0 ELSE count - 1

Ends(s) ==
  /\ stream[s].phase = "finished"
  /\ stream' = [stream EXCEPT ![s].phase = "ended"]
  /\ DropPermit
  /\ UNCHANGED <<allowed, retries>> /\ UNCHANGED Db

ClientLeaves(s) ==
  /\ IsOpen(s)
  /\ stream' = [stream EXCEPT ![s].phase = "ended"]
  /\ DropPermit
  /\ UNCHANGED <<allowed, retries>> /\ UNCHANGED Db

-----------------------------------------------------------------------------
Next ==
  \/ StatusMoves \/ AdminRetry \/ RetentionDeletes \/ AccessLost
  \/ \E c \in Chunk : MarkLiveFailed(c) \/ \E n \in 0 .. MaxRows : LiveBegin(c, n)
  \/ \E n \in 1 .. MaxRows : PersistFinalBegin(n)
  \/ PersistLiveSuccess \/ PersistFinalCommit \/ Rollback
  \/ \E s \in Stream : \/ Open(s) \/ PollMeta(s) \/ PollSegments(s) \/ SnapshotMeta(s) \/ SnapshotSegments(s)
                       \/ LoadFails(s) \/ SnapshotFails(s) \/ Ends(s) \/ ClientLeaves(s)

(* The connection is polled and its statements are answered.               *)
Fairness ==
  \A s \in Stream : WF_vars(PollMeta(s) \/ PollSegments(s) \/ SnapshotMeta(s) \/ SnapshotSegments(s) \/ Ends(s))

Spec == Init /\ [][Next]_vars /\ Fairness

-----------------------------------------------------------------------------
(* The limiter counts the connections that are open, and lets no user have *)
(* more than its limit, however they end.                                  *)
PermitsExact ==
  count = Cardinality({s \in Stream : IsOpen(s)}) /\ count <= MaxPerUser

(* Between two polls the client has every live row up to the cursor, in    *)
(* the version that is stored.                                             *)
LiveDelivered ==
  \A s \in Stream : stream[s].phase = "poll" /\ ~HasFinalRows =>
    \A r \in Visible : r.at <= stream[s].cursor => r \in stream[s].shown

(* A connection comes to an end, however many reads fail: the transcript   *)
(* is final, nothing happens for long, or loads go on failing.  The only   *)
(* exception are snapshots that fail again and again while the load before *)
(* them succeeds: each starts the count of idle polls again.               *)
StreamEnds ==
  \A s \in Stream :
    \/ stream[s].phase = "poll" ~> stream[s].phase = "ended"
    \/ []<><<SnapshotFails(s)>>_vars
=============================================================================
