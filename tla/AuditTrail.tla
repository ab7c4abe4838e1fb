----------------------------- MODULE AuditTrail -----------------------------
(***************************************************************************)
(* Audit events and the pruning of old ones.  Some of the requests that    *)
(* write an event also ask for the old ones to be pruned; a gate of one    *)
(* atomic word lets one task prune at a time and keeps a request that      *)
(* comes meanwhile, so that the task prunes once more for it.              *)
(***************************************************************************)
EXTENDS Naturals, FiniteSets

CONSTANTS
  Caller,    \* requests that write an event
  BatchSize, \* LIMIT of PRUNE_STALE_AUDIT_EVENTS_SQL
  MaxStale   \* bound on stale events

BoundAssumption == BatchSize \in Nat \ {0} /\ MaxStale \in Nat

VARIABLES
  gate,   \* AuditCleanupGate
  caller, \* where a request is
  task,   \* the prune task a request spawned
  owed,   \* requests no prune has begun after
  stale   \* events older than the retention

vars == <<gate, caller, task, owed, stale>>

Init ==
  /\ gate = "IDLE"
  /\ caller = [c \in Caller |-> "write"]
  /\ task = [c \in Caller |-> "none"]
  /\ owed = {} /\ stale = 0

(* The event is inserted and the sample decides whether to prune; events   *)
(* grow old.                                                               *)
PersistAuditEvent(c) ==
  /\ caller[c] = "write"
  /\ \/ caller' = [caller EXCEPT ![c] = "begin"]
     \/ caller' = [caller EXCEPT ![c] = "done"]
  /\ \E n \in stale .. MaxStale : stale' = n
  /\ UNCHANGED <<gate, task, owed>>

(* try_begin: the first compare-exchange ...                               *)
TryBegin(c) ==
  /\ caller[c] = "begin"
  /\ \/ /\ gate = "IDLE" /\ gate' = "RUNNING"
        /\ caller' = [caller EXCEPT ![c] = "done"]
        /\ task' = [task EXCEPT ![c] = "prune"]
        /\ owed' = owed \cup {c}
     \/ /\ gate = "PENDING"
        /\ caller' = [caller EXCEPT ![c] = "done"]
        /\ owed' = owed \cup {c}
        /\ UNCHANGED <<gate, task>>
     \/ /\ gate = "RUNNING"
        /\ caller' = [caller EXCEPT ![c] = "mark"]
        /\ UNCHANGED <<gate, task, owed>>
  /\ UNCHANGED stale

(* ... and the second, after which the whole decision is taken again if    *)
(* the gate has moved.                                                     *)
MarkPending(c) ==
  /\ caller[c] = "mark"
  /\ \/ /\ gate = "RUNNING" /\ gate' = "PENDING"
        /\ caller' = [caller EXCEPT ![c] = "done"]
        /\ owed' = owed \cup {c}
     \/ /\ gate # "RUNNING"
        /\ caller' = [caller EXCEPT ![c] = "begin"]
        /\ UNCHANGED <<gate, owed>>
  /\ UNCHANGED <<task, stale>>

(* The task.  A prune deletes a batch, or fails, which is logged.          *)
BeginPrune(c) ==
  /\ task[c] = "prune"
  /\ task' = [task EXCEPT ![c] = "pruning"]
  /\ owed' = {}
  /\ UNCHANGED <<gate, caller, stale>>

EndPrune(c) ==
  /\ task[c] = "pruning"
  /\ task' = [task EXCEPT ![c] = "release"]
  /\ stale' \in {stale, IF stale < BatchSize THEN 0 ELSE stale - BatchSize}
  /\ UNCHANGED <<gate, caller, owed>>

ReleaseAfterPrune(c) ==
  /\ task[c] = "release"
  /\ IF gate = "RUNNING"
     THEN gate' = "IDLE" /\ task' = [task EXCEPT ![c] = "none"]
     ELSE task' = [task EXCEPT ![c] = "again"] /\ UNCHANGED gate
  /\ UNCHANGED <<caller, owed, stale>>

(* The gate is taken back by a store of its own.                           *)
TakeBack(c) ==
  /\ task[c] = "again"
  /\ gate' = "RUNNING" /\ task' = [task EXCEPT ![c] = "prune"]
  /\ UNCHANGED <<caller, owed, stale>>

Run(c) == BeginPrune(c) \/ EndPrune(c) \/ ReleaseAfterPrune(c) \/ TakeBack(c)

Next == \E c \in Caller : PersistAuditEvent(c) \/ TryBegin(c) \/ MarkPending(c) \/ Run(c)

Spec == Init /\ [][Next]_vars
Fairness == \A c \in Caller : WF_vars(Run(c))

FairSpec == Spec /\ Fairness

-----------------------------------------------------------------------------
(* At most one prune is in flight, and the gate is closed while one is.    *)
OnePrune ==
  /\ Cardinality({c \in Caller : task[c] # "none"}) <= 1
  /\ gate # "IDLE" <=> \E c \in Caller : task[c] # "none"

(* A request is never recorded where no one reads it: while one is owed a  *)
(* prune, a task is going to begin another.                                *)
NoLostTrigger ==
  owed # {} =>
    \E c \in Caller : task[c] \in {"prune", "again"} \/ (task[c] # "none" /\ gate = "PENDING")

(* A prune begins after every request for one.                             *)
PruneFollows == \A c \in Caller : (c \in owed) ~> (c \notin owed)
=============================================================================
