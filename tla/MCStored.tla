------------------------------ MODULE MCStored ------------------------------
(***************************************************************************)
(* What outlives the process, for TLC: the jobs table (JobQueue) and the   *)
(* copies in the object store (UploadMirror). A behaviour is one of a      *)
(* single instance, named by part; the others rest in their initial state, *)
(* so that the state spaces add up and do not multiply.                    *)
(***************************************************************************)
EXTENDS JobQueue

VARIABLES
  part,
  version, staged, remote, tombstone, q, receipt, wants, rec, del, budget, leftover,
  unlisted

(* Chunks and a rewritten file through a queue of one place, with        *)
(* failing requests, refused tasks and tombstones that cannot be listed. *)
Uploads == INSTANCE UploadMirror WITH
  Proc <- {"bot"}, Chunks <- {"file1", "file2"}, Snapshots <- {"mapping"}, Files <- {},
  QueueBound <- 1, MaxPending <- 3, MaxInline <- 2, ReconcileLimit <- 1, MaxVersion <- 3,
  MaxGeneration <- 3, MaxFaults <- 1, MaxPermanent <- 1, MaxBlind <- 1, MaxCrashes <- 0,
  Deleting <- FALSE

(* A recording is deleted while its uploads are queued, retried or under *)
(* way, with a crash or a shutdown anywhere.                             *)
Deletion == INSTANCE UploadMirror WITH
  Proc <- {"bot"}, Chunks <- {"file1"}, Snapshots <- {}, Files <- {"file2"},
  QueueBound <- 2, MaxPending <- 2, MaxInline <- 2, ReconcileLimit <- 1, MaxVersion <- 2,
  MaxGeneration <- 2, MaxFaults <- 1, MaxPermanent <- 0, MaxBlind <- 1, MaxCrashes <- 1,
  Deleting <- TRUE

ASSUME
  /\ Uploads!KindAssumption /\ Uploads!BoundAssumption
  /\ Deletion!KindAssumption /\ Deletion!BoundAssumption

mirrorVars ==
  <<version, staged, remote, tombstone, q, receipt, wants, rec, del, budget, leftover,
    unlisted>>
StoredVars == <<part, vars, mirrorVars>>

StoredInit ==
  /\ part \in {"queue", "uploads", "deletion"}
  /\ Init
  /\ IF part = "uploads" THEN Uploads!Init ELSE Deletion!Init

StoredNext ==
  /\ UNCHANGED part
  /\ \/ /\ part = "queue" /\ Next
        /\ UNCHANGED mirrorVars
     \/ /\ \/ part = "uploads" /\ Uploads!Next
           \/ part = "deletion" /\ Deletion!Next
        /\ UNCHANGED vars

StoredSpec == StoredInit /\ [][StoredNext]_StoredVars

(* What the upload queue has promised of the object store holds. A task is *)
(* counted once from its acceptance until it leaves, whichever way it      *)
(* leaves, so that the limits never shrink for good; the same audio is     *)
(* staged twice only where the earlier copy could not be removed, though a *)
(* save is retried under another name; whoever was told that its file is   *)
(* durable finds that state of it, or a newer one, in the store, unless    *)
(* the recording is deleted; and after a deletion that succeeded no upload *)
(* brings an object back, neither a retry nor one that was under way, nor  *)
(* one after a restart, but for a worker whose last listing of the         *)
(* tombstones failed.                                                      *)
StoreAgrees ==
  /\ part = "uploads"
       => Uploads!TypeOK /\ Uploads!AccountingExact /\ Uploads!OneStagedCopy
  /\ part = "deletion"
       => Deletion!TypeOK /\ Deletion!AccountingExact /\ Deletion!DurableIsStored /\
          Deletion!DeletedStaysDeleted

(* A retry never replaces an object with an older state of the same file,  *)
(* as long as one process writes it and does not start again.              *)
NewestWins == [][part = "uploads" => Uploads!NewestWinsStep]_StoredVars
=============================================================================
