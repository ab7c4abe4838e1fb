----------------------- MODULE RetentionCleanupProofs -----------------------
(***************************************************************************)
(* Proofs about RetentionCleanup, for every number of meetings, days,      *)
(* failed removals, retries and deletions and for all lifetimes: a meeting *)
(* marked as cleaned has nothing left of its raw workspace, a meeting that *)
(* is recorded or processed loses no row, and no file but to a removal it  *)
(* was reopened under, and the bot removes nothing whose lifetime was not  *)
(* over when it planned.                                                   *)
(***************************************************************************)
EXTENDS RetentionCleanup, TLAPS

RetentionAssumption == PolicyAssumption /\ TargetsAssumption /\ BoundAssumption

(***************************************************************************)
(* The inductive invariant.                                                *)
(***************************************************************************)

Runs ==
    [phase : {"raw", "debug", "transcript", "summary", "mark", "rows"}, who : {"bot", "admin"},
     policy : Lifetimes, plan : Plan, estimate : SUBSET (Meeting \X Part),
     freed : SUBSET (Meeting \X Part), clean : SUBSET Meeting, reopened : SUBSET Meeting,
     quiet : BOOLEAN]

Deletions ==
    [phase : {"files", "mark", "transcripts", "summaries", "artifacts"}, meeting : Meeting,
     targets : SUBSET Scope, clean : SUBSET Meeting, estimate : SUBSET Part, freed : SUBSET Part,
     reopened : SUBSET Meeting, quiet : BOOLEAN]

Types ==
    /\ day \in Nat
    /\ status \in [Meeting -> Terminal \cup {"recording", "stopping"}]
    /\ stoppedAt \in [Meeting -> Nat] /\ snapshot \in [Meeting -> Snapshots]
    /\ cleaned \in [Meeting -> BOOLEAN] /\ title \in [Meeting -> BOOLEAN]
    /\ files \in [Meeting -> SUBSET Part]
    /\ live \in [Meeting -> SUBSET Nat] /\ dead \in [Meeting -> SUBSET Nat]
    /\ summaries \in [Meeting -> SUBSET Nat]
    /\ run \in Runs \cup {NoRun} /\ del \in Deletions \cup {NoDelete}

(* Found clean by the run or the deletion under way. *)
Found(m) == (run # NoRun /\ m \in run.clean) \/ (del # NoDelete /\ m \in del.clean)

(* Only what is being cleaned up is found clean. *)
FoundIsCleaned ==
    /\ run # NoRun => run.clean \subseteq run.plan["raw"]
    /\ del # NoDelete => del.clean \subseteq {del.meeting}

(* A meeting with a cleanup behind or before it is over, unless it was       *)
(* reopened on the way.                                                      *)
Sealed == \A m \in Meeting : m \notin raced /\ (Cleaning(m) \/ cleaned[m]) => status[m] \in Terminal

(* What a run or a deletion is about was over when it was planned, and is    *)
(* over still unless it was reopened since.                                  *)
PlannedOver ==
    /\ run # NoRun => \A s \in Scope : \A m \in run.plan[s] : status[m] \in Terminal \/ m \in run.reopened
    /\ del # NoDelete => status[del.meeting] \in Terminal \/ del.meeting \in del.reopened

(* What is marked, or is going to be, has nothing left. *)
Gone == \A m \in Meeting : m \notin raced /\ (cleaned[m] \/ Found(m)) => files[m] \cap RawPart = {}

(* What the bot has planned to remove stays expired until it is removed.     *)
StaysExpired(m) ==
    /\ m \in run.plan["raw"] => Expired(stoppedAt[m], Ttl0(m, "raw"))
    /\ m \in run.plan["transcript"] =>
         Ttl0(m, "transcript") # 0 /\ \A d \in live[m] : Expired(d, Ttl0(m, "transcript"))
    /\ m \in run.plan["summary"] =>
         Ttl0(m, "summary") # 0 /\ \A d \in summaries[m] : Expired(d, Ttl0(m, "summary"))

BotPlans ==
    run # NoRun /\ run.who = "bot" =>
        run.policy = Policy /\ \A m \in Meeting : m \notin run.reopened => StaysExpired(m)

RetentionInv ==
    Types /\ FoundIsCleaned /\ Sealed /\ PlannedOver /\ Gone /\ TitleNeedsSummary /\ BotPlans

(***************************************************************************)
(* Lifetimes, plans and the shapes of runs and deletions.                  *)
(***************************************************************************)

LEMMA Shapes ==
  ASSUME Types
  PROVE  /\ run # NoRun <=> run \in Runs
         /\ run # NoRun <=> run.phase # "idle"
         /\ del # NoDelete <=> del \in Deletions
         /\ del # NoDelete <=> del.phase # "idle"
<1>1. NoRun.phase = "idle" /\ NoDelete.phase = "idle"
  BY DEF NoRun, NoDelete
<1>2. \A r \in Runs : r.phase # "idle"
  BY DEF Runs
<1>3. \A d \in Deletions : d.phase # "idle"
  BY DEF Deletions
<1>4. QED
  BY <1>1, <1>2, <1>3 DEF Types

LEMMA RunFields ==
  ASSUME Types, run # NoRun
  PROVE  /\ run \in Runs /\ run.who \in {"bot", "admin"} /\ run.policy \in Lifetimes
         /\ run.plan \in [Scope -> SUBSET Meeting] /\ run.clean \subseteq Meeting
         /\ run.reopened \subseteq Meeting
         /\ run.phase \in {"raw", "debug", "transcript", "summary", "mark", "rows"}
         /\ run.quiet \in BOOLEAN
BY Shapes DEF Runs, Plan

LEMMA DeletionFields ==
  ASSUME Types, del # NoDelete
  PROVE  /\ del \in Deletions /\ del.meeting \in Meeting /\ del.targets \subseteq Scope
         /\ del.clean \subseteq Meeting /\ del.reopened \subseteq Meeting /\ del.quiet \in BOOLEAN
         /\ del.phase \in {"files", "mark", "transcripts", "summaries", "artifacts"}
BY Shapes DEF Deletions

LEMMA DisturbedRun ==
  ASSUME Types, run' = Disturbed(run)
  PROVE  /\ run' \in Runs \cup {NoRun} /\ (run' # NoRun <=> run # NoRun)
         /\ run # NoRun => /\ run'.phase = run.phase /\ run'.who = run.who /\ run'.policy = run.policy
                           /\ run'.plan = run.plan /\ run'.clean = run.clean /\ run'.reopened = run.reopened
<1>1. CASE run = NoRun
  BY <1>1, Shapes DEF Disturbed
<1>2. CASE run # NoRun
  <2>1. run' = [run EXCEPT !.quiet = FALSE] /\ run \in Runs
    BY <1>2, Shapes DEF Disturbed
  <2>2. run' \in Runs
    BY <2>1 DEF Runs
  <2>3. run' # NoRun
    BY <2>2 DEF Runs, NoRun
  <2>4. /\ run'.phase = run.phase /\ run'.who = run.who /\ run'.policy = run.policy
        /\ run'.plan = run.plan /\ run'.clean = run.clean /\ run'.reopened = run.reopened
    BY <2>1 DEF Runs
  <2>5. QED
    BY <1>2, <2>2, <2>3, <2>4
<1>3. QED
  BY <1>1, <1>2

LEMMA DisturbedDeletion ==
  ASSUME Types, del' = Disturbed(del)
  PROVE  /\ del' \in Deletions \cup {NoDelete} /\ (del' # NoDelete <=> del # NoDelete)
         /\ del # NoDelete => /\ del'.phase = del.phase /\ del'.meeting = del.meeting
                              /\ del'.targets = del.targets /\ del'.clean = del.clean
                              /\ del'.reopened = del.reopened
<1>1. CASE del = NoDelete
  BY <1>1, Shapes DEF Disturbed
<1>2. CASE del # NoDelete
  <2>1. del' = [del EXCEPT !.quiet = FALSE] /\ del \in Deletions
    BY <1>2, Shapes DEF Disturbed
  <2>2. del' \in Deletions
    BY <2>1 DEF Deletions
  <2>3. del' # NoDelete
    BY <2>2 DEF Deletions, NoDelete
  <2>4. /\ del'.phase = del.phase /\ del'.meeting = del.meeting
        /\ del'.targets = del.targets /\ del'.clean = del.clean /\ del'.reopened = del.reopened
    BY <2>1 DEF Deletions
  <2>5. QED
    BY <1>2, <2>2, <2>3, <2>4
<1>3. QED
  BY <1>1, <1>2

(* A meeting is reopened under a run or a deletion. *)
LEMMA ReopenedRun ==
  ASSUME Types, NEW m \in Meeting, run' = Reopened(run, m)
  PROVE  /\ run' \in Runs \cup {NoRun} /\ (run' # NoRun <=> run # NoRun)
         /\ run # NoRun => /\ run'.phase = run.phase /\ run'.who = run.who /\ run'.policy = run.policy
                           /\ run'.plan = run.plan /\ run'.clean = run.clean
                           /\ run'.reopened = run.reopened \cup {m} /\ run'.quiet = run.quiet
                           /\ run'.estimate = run.estimate /\ run'.freed = run.freed
<1>1. CASE run = NoRun
  BY <1>1, Shapes DEF Reopened
<1>2. CASE run # NoRun
  <2>1. run' = [run EXCEPT !.reopened = @ \cup {m}] /\ run \in Runs
    BY <1>2, Shapes DEF Reopened
  <2>2. run' \in Runs
    BY <2>1 DEF Runs
  <2>3. run' # NoRun
    BY <2>2 DEF Runs, NoRun
  <2>4. /\ run'.phase = run.phase /\ run'.who = run.who /\ run'.policy = run.policy
        /\ run'.plan = run.plan /\ run'.clean = run.clean
        /\ run'.reopened = run.reopened \cup {m} /\ run'.quiet = run.quiet
        /\ run'.estimate = run.estimate /\ run'.freed = run.freed
    BY <2>1 DEF Runs
  <2>5. QED
    BY <1>2, <2>2, <2>3, <2>4
<1>3. QED
  BY <1>1, <1>2

LEMMA ReopenedDeletion ==
  ASSUME Types, NEW m \in Meeting, del' = Reopened(del, m)
  PROVE  /\ del' \in Deletions \cup {NoDelete} /\ (del' # NoDelete <=> del # NoDelete)
         /\ del # NoDelete => /\ del'.phase = del.phase /\ del'.meeting = del.meeting
                              /\ del'.targets = del.targets /\ del'.clean = del.clean
                              /\ del'.reopened = del.reopened \cup {m} /\ del'.quiet = del.quiet
                              /\ del'.estimate = del.estimate /\ del'.freed = del.freed
<1>1. CASE del = NoDelete
  BY <1>1, Shapes DEF Reopened
<1>2. CASE del # NoDelete
  <2>1. del' = [del EXCEPT !.reopened = @ \cup {m}] /\ del \in Deletions
    BY <1>2, Shapes DEF Reopened
  <2>2. del' \in Deletions
    BY <2>1 DEF Deletions
  <2>3. del' # NoDelete
    BY <2>2 DEF Deletions, NoDelete
  <2>4. /\ del'.phase = del.phase /\ del'.meeting = del.meeting
        /\ del'.targets = del.targets /\ del'.clean = del.clean
        /\ del'.reopened = del.reopened \cup {m} /\ del'.quiet = del.quiet
        /\ del'.estimate = del.estimate /\ del'.freed = del.freed
    BY <2>1 DEF Deletions
  <2>5. QED
    BY <1>2, <2>2, <2>3, <2>4
<1>3. QED
  BY <1>1, <1>2

LEMMA Documented ==
  ASSUME RetentionAssumption, Types, NEW m \in Meeting, NEW s \in {"raw", "transcript", "summary"}
  PROVE  Ttl0(m, s) \in Nat /\ Ttl("bot", Policy, m, s) = Ttl0(m, s)
<1>1. Policy \in Lifetimes
  BY DEF RetentionAssumption, PolicyAssumption
<1>2. snapshot[m] # NoSnapshot => snapshot[m] \in Lifetimes
  BY DEF RetentionAssumption, PolicyAssumption, Types
<1>3. \A l \in Lifetimes : l[s] \in Nat
  BY DEF Lifetimes
<1>4. QED
  BY <1>1, <1>2, <1>3 DEF Ttl0, Ttl

LEMMA ExpiryStays ==
  ASSUME NEW at \in Nat, NEW ttl \in Nat, day \in Nat, day' \in Nat, day' >= day, Expired(at, ttl)
  PROVE  Expired(at, ttl)'
BY DEF Expired

LEMMA PlansAre ==
  ASSUME Types, NEW who, NEW policy, NEW failed \in SUBSET Scope, NEW plan, plan = CollectPlan(who, policy, failed)
  PROVE  /\ plan \in Plan
         /\ plan["raw"] \subseteq RawWorkspaces(who, policy)
         /\ plan["debug"] \subseteq DebugWorkspaces(who, policy)
         /\ plan["transcript"] \subseteq TranscriptWorkspaces(who, policy)
         /\ plan["summary"] \subseteq SummaryWorkspaces(who, policy)
<1>1. /\ RawWorkspaces(who, policy) \subseteq Meeting /\ DebugWorkspaces(who, policy) \subseteq Meeting
      /\ TranscriptWorkspaces(who, policy) \subseteq Meeting /\ SummaryWorkspaces(who, policy) \subseteq Meeting
  BY DEF RawWorkspaces, DebugWorkspaces, TranscriptWorkspaces, SummaryWorkspaces
<1>2. plan["raw"] = {} \/ plan["raw"] = RawWorkspaces(who, policy)
  BY DEF CollectPlan, Scope
<1>3. plan["debug"] = {} \/ plan["debug"] = DebugWorkspaces(who, policy)
  BY DEF CollectPlan, Scope
<1>4. plan["transcript"] = {} \/ plan["transcript"] = TranscriptWorkspaces(who, policy)
  BY DEF CollectPlan, Scope
<1>5. plan["summary"] = {} \/ plan["summary"] = SummaryWorkspaces(who, policy)
  BY DEF CollectPlan, Scope
<1>6. \A s \in Scope : plan[s] \subseteq Meeting
  BY <1>1, <1>2, <1>3, <1>4, <1>5 DEF Scope
<1>7. plan = [s \in Scope |-> plan[s]]
  BY DEF CollectPlan
<1>8. plan \in Plan
  BY <1>6, <1>7 DEF Plan
<1>9. QED
  BY <1>1, <1>2, <1>3, <1>4, <1>5, <1>8

(* What is planned belongs to a meeting that is over. *)
LEMMA PlannedIsOver ==
  ASSUME Types, NEW who, NEW policy, NEW failed \in SUBSET Scope, NEW plan, plan = CollectPlan(who, policy, failed),
         NEW s \in Scope, NEW m \in plan[s]
  PROVE  m \in Meeting /\ status[m] \in Terminal
<1>1. /\ m \in RawWorkspaces(who, policy) \/ m \in DebugWorkspaces(who, policy)
         \/ m \in TranscriptWorkspaces(who, policy) \/ m \in SummaryWorkspaces(who, policy)
  BY PlansAre DEF Scope
<1>2. QED
  BY <1>1 DEF RawWorkspaces, DebugWorkspaces, TranscriptWorkspaces, SummaryWorkspaces, StoppedLongAgo

(***************************************************************************)
(* The steps.  First what the plans of the bot need of any step.           *)
(***************************************************************************)

LEMMA PlannedKept ==
  ASSUME Types, PlannedOver, \A m \in Meeting : status[m] \in Terminal => status'[m] \in Terminal,
         run' # NoRun => run # NoRun /\ run'.plan = run.plan /\ run'.reopened = run.reopened,
         del' # NoDelete => del # NoDelete /\ del'.meeting = del.meeting /\ del'.reopened = del.reopened
  PROVE  PlannedOver'
<1>1. run # NoRun => \A s \in Scope : run.plan[s] \subseteq Meeting
  BY RunFields
<1>2. del # NoDelete => del.meeting \in Meeting
  BY DeletionFields
<1>3. QED
  BY <1>1, <1>2 DEF PlannedOver

LEMMA BotPlansKept ==
  ASSUME RetentionAssumption, Types, BotPlans, day' \in Nat, day' >= day, snapshot' = snapshot,
         run # NoRun, run'.who = run.who, run'.policy = run.policy, run'.plan = run.plan,
         run.reopened \subseteq run'.reopened,
         \A m \in Meeting :
           m \notin run'.reopened /\ (\E s \in Scope : m \in run.plan[s]) =>
             /\ stoppedAt'[m] = stoppedAt[m]
             /\ live'[m] \subseteq live[m] /\ summaries'[m] \subseteq summaries[m]
  PROVE  BotPlans'
<1>1. SUFFICES ASSUME run.who = "bot"
               PROVE  run'.policy = Policy /\ \A m \in Meeting : m \notin run'.reopened => StaysExpired(m)'
  BY DEF BotPlans
<1>2. run.policy = Policy /\ \A m \in Meeting : m \notin run.reopened => StaysExpired(m)
  BY <1>1 DEF BotPlans
<1>3. ASSUME NEW m \in Meeting, m \notin run'.reopened  PROVE StaysExpired(m)'
  <2>1. /\ day \in Nat /\ stoppedAt[m] \in Nat /\ live[m] \subseteq Nat /\ summaries[m] \subseteq Nat
    BY DEF Types
  <2>2. \A s \in {"raw", "transcript", "summary"} : Ttl0(m, s) \in Nat /\ Ttl0(m, s)' = Ttl0(m, s)
    BY Documented DEF Ttl0
  <2>3. ASSUME NEW s \in {"raw", "transcript", "summary"}, m \in run.plan[s]
        PROVE  /\ stoppedAt'[m] = stoppedAt[m] /\ live'[m] \subseteq live[m]
               /\ summaries'[m] \subseteq summaries[m] /\ StaysExpired(m)
    BY <1>2, <1>3, <2>3 DEF Scope
  <2>4. ASSUME m \in run.plan["raw"]
        PROVE  Expired(stoppedAt[m], Ttl0(m, "raw"))' /\ stoppedAt'[m] = stoppedAt[m]
    <3>1. stoppedAt'[m] = stoppedAt[m] /\ Expired(stoppedAt[m], Ttl0(m, "raw"))
      BY <2>3, <2>4 DEF StaysExpired
    <3>2. QED
      BY <2>1, <2>2, <3>1 DEF Expired
  <2>5. ASSUME m \in run.plan["transcript"]
        PROVE  Ttl0(m, "transcript")' # 0 /\ \A d \in live'[m] : Expired(d, Ttl0(m, "transcript"))'
    <3>1. /\ live'[m] \subseteq live[m] /\ Ttl0(m, "transcript") # 0
          /\ \A d \in live[m] : Expired(d, Ttl0(m, "transcript"))
      BY <2>3, <2>5 DEF StaysExpired
    <3>2. QED
      BY <2>1, <2>2, <3>1 DEF Expired
  <2>6. ASSUME m \in run.plan["summary"]
        PROVE  Ttl0(m, "summary")' # 0 /\ \A d \in summaries'[m] : Expired(d, Ttl0(m, "summary"))'
    <3>1. /\ summaries'[m] \subseteq summaries[m] /\ Ttl0(m, "summary") # 0
          /\ \A d \in summaries[m] : Expired(d, Ttl0(m, "summary"))
      BY <2>3, <2>6 DEF StaysExpired
    <3>2. QED
      BY <2>1, <2>2, <3>1 DEF Expired
  <2>7. QED
    BY <2>4, <2>5, <2>6 DEF StaysExpired
<1>4. QED
  BY <1>2, <1>3

LEMMA NoRunPlansNothing ==
  ASSUME run' = NoRun
  PROVE  BotPlans'
BY DEF BotPlans

(* A day passes, or a retry is asked for. *)
LEMMA QuietSteps ==
  ASSUME RetentionAssumption, RetentionInv, day' \in Nat, day' >= day,
         UNCHANGED <<meetingVars, rowVars, files, run, del, raced>>
  PROVE  RetentionInv'
<1>1. Types'
  BY DEF RetentionInv, Types, meetingVars, rowVars
<1>2. (FoundIsCleaned /\ Sealed /\ PlannedOver /\ Gone /\ TitleNeedsSummary)'
  BY DEF RetentionInv, FoundIsCleaned, Sealed, PlannedOver, Gone, Found, Cleaning, TitleNeedsSummary,
         meetingVars, rowVars
<1>3. BotPlans'
  <2>1. CASE run = NoRun
    BY <2>1, NoRunPlansNothing
  <2>2. CASE run # NoRun
    BY <2>2, BotPlansKept DEF RetentionInv, meetingVars, rowVars
  <2>3. QED
    BY <2>1, <2>2
<1>4. QED
  BY <1>1, <1>2, <1>3 DEF RetentionInv

LEMMA RetryKeeps ==
  ASSUME RetentionAssumption, RetentionInv, NEW m \in Meeting, RetryJob(m)
  PROVE  RetentionInv'
<1> DEFINE ok == status[m] = "failed" /\ ~cleaned[m]
<1>0. /\ Types /\ UNCHANGED <<day, stoppedAt, snapshot, rowVars, files>>
      /\ raced' = (IF ok /\ Cleaning(m) THEN raced \cup {m} ELSE raced)
      /\ status' = [status EXCEPT ![m] = IF ok THEN "stopping" ELSE @]
      /\ run' = (IF ok THEN Reopened(run, m) ELSE run) /\ del' = (IF ok THEN Reopened(del, m) ELSE del)
  BY DEF RetentionInv, RetryJob
<1>1. /\ run' \in Runs \cup {NoRun} /\ (run' # NoRun <=> run # NoRun)
      /\ run # NoRun => /\ run'.who = run.who /\ run'.policy = run.policy
                        /\ run'.plan = run.plan /\ run'.clean = run.clean
                        /\ run'.reopened = run.reopened \cup (IF ok THEN {m} ELSE {})
  <2>1. CASE ok
    BY <1>0, <2>1, ReopenedRun
  <2>2. CASE ~ok
    BY <1>0, <2>2 DEF Types
  <2>3. QED
    BY <2>1, <2>2
<1>2. /\ del' \in Deletions \cup {NoDelete} /\ (del' # NoDelete <=> del # NoDelete)
      /\ del # NoDelete => /\ del'.meeting = del.meeting /\ del'.clean = del.clean
                           /\ del'.reopened = del.reopened \cup (IF ok THEN {m} ELSE {})
  <2>1. CASE ok
    BY <1>0, <2>1, ReopenedDeletion
  <2>2. CASE ~ok
    BY <1>0, <2>2 DEF Types
  <2>3. QED
    BY <2>1, <2>2
<1>3. Types'
  <2>1. status' \in [Meeting -> Terminal \cup {"recording", "stopping"}]
    BY <1>0 DEF Types
  <2>2. QED
    BY <1>0, <1>1, <1>2, <2>1 DEF Types, rowVars
<1>4. /\ UNCHANGED <<cleaned, title, live, dead, summaries>>
      /\ raced \subseteq raced' /\ \A n \in Meeting : n # m => status'[n] = status[n]
      /\ ~ok => status'[m] = status[m]
      /\ (m \notin raced' => status'[m] = status[m] \/ (~Cleaning(m) /\ ~cleaned[m]))
  BY <1>0 DEF Types, rowVars
<1>5. \A n \in Meeting : (Cleaning(n)' <=> Cleaning(n)) /\ (Found(n)' <=> Found(n))
  BY <1>1, <1>2 DEF Cleaning, Found
<1>6. Sealed' /\ Gone'
  BY <1>0, <1>4, <1>5 DEF RetentionInv, Sealed, Gone
<1>7. PlannedOver'
  <2>1. run # NoRun => \A s \in Scope : run.plan[s] \subseteq Meeting
    BY <1>0, RunFields
  <2>2. del # NoDelete => del.meeting \in Meeting
    BY <1>0, DeletionFields
  <2>3. QED
    BY <1>1, <1>2, <1>4, <2>1, <2>2 DEF RetentionInv, PlannedOver
<1>8. (FoundIsCleaned /\ TitleNeedsSummary)'
  BY <1>1, <1>2, <1>4 DEF RetentionInv, FoundIsCleaned, TitleNeedsSummary
<1>9. BotPlans'
  <2>1. CASE run = NoRun
    BY <1>1, <2>1, NoRunPlansNothing
  <2>2. CASE run # NoRun
    <3>1. day' \in Nat /\ day' >= day
      BY <1>0 DEF Types
    <3>2. QED
      BY <1>0, <1>1, <1>4, <2>2, <3>1, BotPlansKept DEF RetentionInv
  <2>3. QED
    BY <2>1, <2>2
<1>10. QED
  BY <1>3, <1>6, <1>7, <1>8, <1>9 DEF RetentionInv

LEMMA StopKeeps ==
  ASSUME RetentionAssumption, RetentionInv, NEW m \in Meeting, StopRecording(m)
  PROVE  RetentionInv'
<1>0. /\ Types /\ UNCHANGED <<day, snapshot, rowVars, files, run, del, raced>>
      /\ status' = [status EXCEPT ![m] = "stopping"] /\ status[m] = "recording"
      /\ stoppedAt' = [stoppedAt EXCEPT ![m] = day]
  BY DEF RetentionInv, StopRecording
<1>1. Types'
  BY <1>0 DEF Types, rowVars
<1>2. /\ UNCHANGED <<cleaned, title, live, dead, summaries>>
      /\ \A n \in Meeting : n # m => status'[n] = status[n] /\ stoppedAt'[n] = stoppedAt[n]
  BY <1>0 DEF Types, rowVars
<1>3. \A n \in Meeting : (Cleaning(n)' <=> Cleaning(n)) /\ (Found(n)' <=> Found(n))
  BY <1>0 DEF Cleaning, Found
<1>4. m \in raced \/ (~Cleaning(m) /\ ~cleaned[m])
  BY <1>0 DEF RetentionInv, Sealed, Terminal
<1>5. Sealed' /\ Gone' /\ PlannedOver'
  <2>1. \A n \in Meeting : status[n] \in Terminal => status'[n] \in Terminal
    BY <1>0, <1>2 DEF Terminal
  <2>2. PlannedOver'
    BY <1>0, <2>1, PlannedKept DEF RetentionInv
  <2>3. QED
    BY <1>0, <1>2, <1>3, <1>4, <2>2 DEF RetentionInv, Sealed, Gone
<1>6. (FoundIsCleaned /\ TitleNeedsSummary)'
  BY <1>0, <1>2 DEF RetentionInv, FoundIsCleaned, TitleNeedsSummary
<1>7. BotPlans'
  <2>1. CASE run = NoRun
    BY <1>0, <2>1, NoRunPlansNothing
  <2>2. CASE run # NoRun
    <3>1. day' \in Nat /\ day' >= day
      BY <1>0 DEF Types
    <3>2. m \in run.reopened \/ ~\E s \in Scope : m \in run.plan[s]
      BY <1>0, <2>2 DEF RetentionInv, PlannedOver, Terminal
    <3>3. QED
      BY <1>0, <1>2, <2>2, <3>1, <3>2, BotPlansKept DEF RetentionInv
  <2>3. QED
    BY <2>1, <2>2
<1>8. QED
  BY <1>1, <1>5, <1>6, <1>7 DEF RetentionInv

LEMMA ProcessKeeps ==
  ASSUME RetentionAssumption, RetentionInv, NEW m \in Meeting, ProcessMeeting(m)
  PROVE  RetentionInv'
<1>0. /\ Types /\ UNCHANGED <<day, stoppedAt, snapshot, cleaned, raced>> /\ status[m] = "stopping"
      /\ run' = Disturbed(run) /\ del' = Disturbed(del)
  BY DEF RetentionInv, ProcessMeeting
<1>1. PICK reached \in {"nothing", "transcript", "summary", "posted"} :
        LET transcribed == reached # "nothing"
            summarized == reached \in {"summary", "posted"}
            rows == live[m] \cup dead[m] IN
        /\ status' = [status EXCEPT ![m] = IF reached = "posted" THEN "posted" ELSE "failed"]
        /\ files' = [files EXCEPT ![m] = @
             \cup (IF transcribed THEN {"audio", "speakers", "transcript", "context", "debug"} ELSE {})
             \cup (IF summarized THEN {"summary"} ELSE {})]
        /\ live' = [live EXCEPT ![m] =
             IF ~transcribed THEN @ ELSE IF rows = {} THEN {day} ELSE rows]
        /\ dead' = [dead EXCEPT ![m] = IF transcribed THEN {} ELSE @]
        /\ summaries' = [summaries EXCEPT ![m] = IF summarized /\ @ = {} THEN {day} ELSE @]
        /\ title' = [title EXCEPT ![m] = @ \/ summarized]
  BY DEF ProcessMeeting
<1>2. \A n \in Meeting : n # m => /\ status'[n] = status[n] /\ files'[n] = files[n] /\ live'[n] = live[n]
                                  /\ summaries'[n] = summaries[n] /\ title'[n] = title[n]
  BY <1>0, <1>1 DEF Types
<1>3. /\ run' \in Runs \cup {NoRun} /\ (run' # NoRun <=> run # NoRun)
      /\ run # NoRun => /\ run'.who = run.who /\ run'.policy = run.policy
                        /\ run'.plan = run.plan /\ run'.clean = run.clean /\ run'.reopened = run.reopened
  BY <1>0, DisturbedRun
<1>4. /\ del' \in Deletions \cup {NoDelete} /\ (del' # NoDelete <=> del # NoDelete)
      /\ del # NoDelete => /\ del'.meeting = del.meeting /\ del'.clean = del.clean
                           /\ del'.reopened = del.reopened
  BY <1>0, DisturbedDeletion
<1>5. \A n \in Meeting : (Cleaning(n)' <=> Cleaning(n)) /\ (Found(n)' <=> Found(n))
  BY <1>3, <1>4 DEF Cleaning, Found
<1>6. Types'
  <2>1. status' \in [Meeting -> Terminal \cup {"recording", "stopping"}]
    BY <1>0, <1>1 DEF Types, Terminal
  <2>2. files' \in [Meeting -> SUBSET Part]
    BY <1>0, <1>1 DEF Types, Part, RawPart, AudioPart, DebugPart
  <2>3. live' \in [Meeting -> SUBSET Nat] /\ dead' \in [Meeting -> SUBSET Nat]
    BY <1>0, <1>1 DEF Types
  <2>4. summaries' \in [Meeting -> SUBSET Nat]
    BY <1>0, <1>1 DEF Types
  <2>5. title' \in [Meeting -> BOOLEAN]
    BY <1>0, <1>1 DEF Types
  <2>6. QED
    BY <1>0, <1>3, <1>4, <2>1, <2>2, <2>3, <2>4, <2>5 DEF Types
<1>7. m \in raced \/ (~Cleaning(m) /\ ~cleaned[m])
  BY <1>0 DEF RetentionInv, Sealed, Terminal
<1>8. FoundIsCleaned'
  BY <1>3, <1>4 DEF RetentionInv, FoundIsCleaned
<1>9. \A n \in Meeting : Found(n) => Cleaning(n)
  BY DEF RetentionInv, FoundIsCleaned, Found, Cleaning, Scope
<1>10. Sealed' /\ Gone' /\ PlannedOver'
  <2>1. \A n \in Meeting : status[n] \in Terminal => status'[n] \in Terminal
    BY <1>0, <1>1, <1>2 DEF Terminal, Types
  <2>2. PlannedOver'
    BY <1>0, <1>3, <1>4, <2>1, PlannedKept DEF RetentionInv
  <2>3. QED
    BY <1>0, <1>2, <1>5, <1>7, <1>9, <2>2 DEF RetentionInv, Sealed, Gone
<1>11. TitleNeedsSummary'
  <2>1. title'[m] => summaries'[m] # {}
    BY <1>0, <1>1 DEF Types, RetentionInv, TitleNeedsSummary
  <2>2. QED
    BY <1>2, <2>1 DEF RetentionInv, TitleNeedsSummary
<1>12. BotPlans'
  <2>1. CASE run = NoRun
    BY <1>3, <2>1, NoRunPlansNothing
  <2>2. CASE run # NoRun
    <3>1. day' \in Nat /\ day' >= day
      BY <1>0 DEF Types
    <3>2. m \in run.reopened \/ ~\E s \in Scope : m \in run.plan[s]
      BY <1>0, <2>2 DEF RetentionInv, PlannedOver, Terminal
    <3>3. QED
      BY <1>0, <1>2, <1>3, <2>2, <3>1, <3>2, BotPlansKept DEF RetentionInv
  <2>3. QED
    BY <2>1, <2>2
<1>13. QED
  BY <1>6, <1>8, <1>10, <1>11, <1>12 DEF RetentionInv

(* A run begins with what has expired now. *)
LEMMA StartKeeps ==
  ASSUME RetentionAssumption, RetentionInv, NEW who \in {"bot", "admin"}, NEW policy \in Lifetimes,
         NEW failed \in SUBSET Scope, who = "bot" => policy = Policy, run = NoRun,
         StartRun(who, policy, failed), UNCHANGED <<day, meetingVars, rowVars, files, del, raced>>
  PROVE  RetentionInv'
<1> DEFINE plan == CollectPlan(who, policy, failed)
<1>0. Types /\ UNCHANGED <<status, stoppedAt, snapshot, cleaned, title, live, dead, summaries>>
  BY DEF RetentionInv, meetingVars, rowVars
<1>1. /\ plan \in Plan /\ plan["raw"] \subseteq RawWorkspaces(who, policy)
      /\ plan["transcript"] \subseteq TranscriptWorkspaces(who, policy)
      /\ plan["summary"] \subseteq SummaryWorkspaces(who, policy)
  BY <1>0, PlansAre
<1>2. \A s \in Scope : \A m \in plan[s] : m \in Meeting /\ status[m] \in Terminal
  BY <1>0, PlannedIsOver
<1>3. PlanUsage(plan) \in SUBSET (Meeting \X Part)
  BY DEF PlanUsage
<1> DEFINE usage == PlanUsage(plan)
<1>4. run' = [phase |-> "raw", who |-> who, policy |-> policy, plan |-> plan,
              estimate |-> usage, freed |-> {}, clean |-> {}, reopened |-> {}, quiet |-> failed = {}]
  BY DEF StartRun
<1>5. usage \in SUBSET (Meeting \X Part)
  BY <1>3
<1> HIDE DEF plan, usage
<1>6. run' \in Runs
  BY <1>1, <1>4, <1>5 DEF Runs
<1>7. /\ run'.plan = plan /\ run'.clean = {} /\ run'.who = who /\ run'.policy = policy
      /\ run'.phase = "raw" /\ run'.reopened = {}
  BY <1>4
<1>8. run' # NoRun
  BY <1>7 DEF NoRun
<1>9. Types'
  BY <1>0, <1>6 DEF Types
<1>10. FoundIsCleaned'
  BY <1>0, <1>7 DEF RetentionInv, FoundIsCleaned
<1>11. \A m \in Meeting : Found(m)' => Found(m)
  BY <1>0, <1>7 DEF Found
<1>12. \A m \in Meeting : Cleaning(m)' => Cleaning(m) \/ status[m] \in Terminal
  BY <1>0, <1>2, <1>7 DEF Cleaning
<1>13. Sealed' /\ PlannedOver' /\ Gone' /\ TitleNeedsSummary'
  <2>1. PlannedOver'
    BY <1>0, <1>2, <1>7 DEF RetentionInv, PlannedOver
  <2>2. QED
    BY <1>0, <1>11, <1>12, <2>1 DEF RetentionInv, Sealed, Gone, TitleNeedsSummary
<1>14. BotPlans'
  <2>1. SUFFICES ASSUME who = "bot", NEW m \in Meeting  PROVE StaysExpired(m)'
    BY <1>7 DEF BotPlans
  <2>2. \A s \in {"raw", "transcript", "summary"} :
          Ttl(who, policy, m, s) = Ttl0(m, s) /\ Ttl0(m, s)' = Ttl0(m, s)
    BY <1>0, <2>1, Documented DEF Ttl0
  <2>3. m \in plan["raw"] => Expired(stoppedAt[m], Ttl0(m, "raw"))
    BY <1>1, <2>2 DEF RawWorkspaces, StoppedLongAgo
  <2>4. m \in plan["transcript"] =>
          Ttl0(m, "transcript") # 0 /\ \A d \in live[m] : Expired(d, Ttl0(m, "transcript"))
    BY <1>1, <2>2 DEF TranscriptWorkspaces
  <2>5. m \in plan["summary"] =>
          Ttl0(m, "summary") # 0 /\ \A d \in summaries[m] : Expired(d, Ttl0(m, "summary"))
    BY <1>1, <2>2 DEF SummaryWorkspaces
  <2>6. QED
    BY <1>0, <1>7, <2>2, <2>3, <2>4, <2>5 DEF StaysExpired, Expired
<1>15. QED
  BY <1>9, <1>10, <1>13, <1>14 DEF RetentionInv

LEMMA RawTargetsAll ==
  ASSUME NEW phase, phase = "raw"
  PROVE  PhaseTargets(phase, {}) = RawPart \cup DebugPart
BY DEF PhaseTargets, RawTargets

(* Directories are removed; what was clean stays so. *)
LEMMA FilesystemKeeps ==
  ASSUME RetentionAssumption, RetentionInv, FilesystemCleanup
  PROVE  RetentionInv'
<1> DEFINE S == run.plan[run.phase]
<1>0. /\ Types /\ UNCHANGED <<day, status, stoppedAt, snapshot, cleaned, title, live, dead, summaries, raced>>
      /\ del' = Disturbed(del) /\ run.phase \in {"raw", "debug", "transcript", "summary"}
  BY DEF RetentionInv, FilesystemCleanup, meetingVars, rowVars, Following
<1>1. run # NoRun /\ run \in Runs /\ S \subseteq Meeting /\ run.plan \in Plan
  BY <1>0, Shapes, RunFields DEF Scope, Plan
<1>2. PICK broken \in Broken(S, PhaseParts[run.phase]) :
        /\ RemoveDirs(S, [m \in S |-> PhaseTargets(run.phase, broken[m])], broken)
        /\ run' = [run EXCEPT !.phase = Following[run.phase],
                              !.freed = @ \cup FreedBy(files, files'),
                              !.clean = IF run.phase = "raw" THEN CleanWorkspaces(S, broken) ELSE @,
                              !.quiet = @ /\ ~Faulty(broken)]
  BY DEF FilesystemCleanup
<1>3. ASSUME NEW m \in Meeting
      PROVE  /\ files'[m] \subseteq files[m]
             /\ m \in S => files'[m] = files[m] \ PhaseTargets(run.phase, broken[m])
             /\ m \notin S => files'[m] = files[m]
  BY <1>2 DEF RemoveDirs, Removed
<1>4. files' \in [Meeting -> SUBSET Part]
  <2>1. files' = [m \in Meeting |-> files'[m]]
    BY <1>2 DEF RemoveDirs
  <2>2. \A m \in Meeting : files'[m] \in SUBSET Part
    BY <1>0, <1>3 DEF Types
  <2>3. QED
    BY <2>1, <2>2
<1> DEFINE freed == run.freed \cup FreedBy(files, files')
           clean == IF run.phase = "raw" THEN CleanWorkspaces(S, broken) ELSE run.clean
           quiet == run.quiet /\ ~Faulty(broken)
           phase == Following[run.phase]
<1>5. freed \in SUBSET (Meeting \X Part) /\ clean \in SUBSET Meeting /\ quiet \in BOOLEAN
  <2>1. run.freed \in SUBSET (Meeting \X Part) /\ run.clean \in SUBSET Meeting
    BY <1>1 DEF Runs
  <2>2. FreedBy(files, files') \in SUBSET (Meeting \X Part)
    BY DEF FreedBy
  <2>3. CleanWorkspaces(S, broken) \in SUBSET Meeting
    BY <1>1 DEF CleanWorkspaces
  <2>4. QED
    BY <2>1, <2>2, <2>3
<1>6. phase \in {"debug", "transcript", "summary", "mark"}
  BY <1>0 DEF Following
<1>7. run' = [run EXCEPT !.phase = phase, !.freed = freed, !.clean = clean, !.quiet = quiet]
  BY <1>2
<1>8. ASSUME NEW m \in clean, run.phase = "raw"
      PROVE  m \in S /\ files'[m] \cap RawPart = {}
  <2>1. m \in S /\ m \in Meeting /\ broken[m] = {}
    BY <1>1, <1>8 DEF CleanWorkspaces
  <2>2. files'[m] = files[m] \ (RawPart \cup DebugPart)
    BY <1>3, <1>8, <2>1, RawTargetsAll
  <2>3. QED
    BY <2>1, <2>2
<1>9. run.phase # "raw" => clean = run.clean
  OBVIOUS
<1> HIDE DEF freed, clean, quiet, phase, S
<1>10. run' \in Runs
  BY <1>1, <1>5, <1>6, <1>7 DEF Runs
<1>11. /\ run'.plan = run.plan /\ run'.who = run.who /\ run'.policy = run.policy
       /\ run'.clean = clean /\ run'.phase = phase /\ run'.reopened = run.reopened
  BY <1>1, <1>7 DEF Runs
<1>12. run' # NoRun
  BY <1>6, <1>11 DEF NoRun
<1>13. /\ del' \in Deletions \cup {NoDelete} /\ (del' # NoDelete <=> del # NoDelete)
       /\ del # NoDelete => /\ del'.meeting = del.meeting /\ del'.clean = del.clean
                            /\ del'.reopened = del.reopened
  BY <1>0, DisturbedDeletion
<1>14. Types'
  BY <1>0, <1>4, <1>10, <1>13 DEF Types
<1>15. FoundIsCleaned'
  <2>1. clean \subseteq run.plan["raw"]
    BY <1>1, <1>8, <1>9 DEF RetentionInv, FoundIsCleaned, S
  <2>2. QED
    BY <1>11, <1>13, <2>1 DEF RetentionInv, FoundIsCleaned
<1>16. \A m \in Meeting : Cleaning(m)' <=> Cleaning(m)
  BY <1>1, <1>11, <1>12, <1>13 DEF Cleaning
<1>17. \A m \in Meeting : Found(m)' => Found(m) \/ files'[m] \cap RawPart = {}
  BY <1>1, <1>8, <1>9, <1>11, <1>13 DEF Found
<1>18. Sealed' /\ PlannedOver' /\ TitleNeedsSummary'
  <2>1. PlannedOver'
    BY <1>0, <1>1, <1>11, <1>13, PlannedKept DEF RetentionInv
  <2>2. QED
    BY <1>0, <1>16, <2>1 DEF RetentionInv, Sealed, TitleNeedsSummary
<1>19. Gone'
  BY <1>0, <1>3, <1>17 DEF RetentionInv, Gone
<1>20. BotPlans'
  BY <1>0, <1>1, <1>11, BotPlansKept DEF RetentionInv, Types
<1>21. QED
  BY <1>14, <1>15, <1>18, <1>19, <1>20 DEF RetentionInv

LEMMA MarkKeeps ==
  ASSUME RetentionAssumption, RetentionInv, MarkRawWorkspaceCleaned
  PROVE  RetentionInv'
<1>0. /\ Types /\ UNCHANGED <<day, status, stoppedAt, snapshot, title, live, dead, summaries, files, del, raced>>
      /\ run.phase = "mark" /\ run' = [run EXCEPT !.phase = "rows"]
  BY DEF RetentionInv, MarkRawWorkspaceCleaned, meetingVars
<1>1. run # NoRun /\ run \in Runs
  BY <1>0, Shapes
<1>2. run' \in Runs
  BY <1>0, <1>1 DEF Runs
<1>3. /\ run'.plan = run.plan /\ run'.who = run.who /\ run'.policy = run.policy
      /\ run'.clean = run.clean /\ run'.phase = "rows" /\ run'.reopened = run.reopened
  BY <1>0, <1>1 DEF Runs
<1>4. run' # NoRun
  BY <1>3 DEF NoRun
<1>5. cleaned' \in [Meeting -> BOOLEAN]
  BY <1>0 DEF MarkRawWorkspaceCleaned, Types
<1>6. \A m \in Meeting : cleaned'[m] => cleaned[m] \/ m \in run.clean
  BY <1>0 DEF MarkRawWorkspaceCleaned, Types, Markable
<1>7. Types'
  BY <1>0, <1>2, <1>5 DEF Types
<1>8. FoundIsCleaned'
  BY <1>0, <1>1, <1>3 DEF RetentionInv, FoundIsCleaned
<1>9. \A m \in Meeting : (Cleaning(m)' <=> Cleaning(m)) /\ (Found(m)' <=> Found(m))
  BY <1>0, <1>1, <1>3, <1>4 DEF Cleaning, Found
<1>10. \A m \in Meeting : m \in run.clean => Cleaning(m) /\ Found(m)
  BY <1>1 DEF RetentionInv, FoundIsCleaned, Cleaning, Found, Scope
<1>11. Sealed' /\ PlannedOver' /\ Gone' /\ TitleNeedsSummary'
  <2>1. PlannedOver'
    BY <1>0, <1>1, <1>3, PlannedKept DEF RetentionInv
  <2>2. QED
    BY <1>0, <1>6, <1>9, <1>10, <2>1 DEF RetentionInv, Sealed, Gone, TitleNeedsSummary
<1>12. BotPlans'
  BY <1>0, <1>1, <1>3, BotPlansKept DEF RetentionInv, Types
<1>13. QED
  BY <1>7, <1>8, <1>11, <1>12 DEF RetentionInv

(* The rows go; the title goes with the last summary. *)
LEMMA TitleGoesToo ==
  ASSUME RetentionAssumption, Types, TitleNeedsSummary, NEW who, NEW policy, NEW m \in Meeting, title[m],
         ~TitleCleared(who, policy, m)
  PROVE  summaries[m] \ ExpiredSummaries(who, policy, m) # {}
<1>1. PICK d \in summaries[m] : TRUE
  BY DEF TitleNeedsSummary
<1>2. CASE status[m] \notin Terminal \/ Ttl(who, policy, m, "summary") = 0
  BY <1>1, <1>2 DEF ExpiredSummaries, Expired
<1>3. CASE status[m] \in Terminal /\ Ttl(who, policy, m, "summary") # 0
  <2>1. PICK e \in summaries[m] : ~Expired(e, Ttl(who, policy, m, "summary"))
    BY <1>1, <1>3 DEF TitleCleared, SummaryWorkspaces
  <2>2. QED
    BY <2>1 DEF ExpiredSummaries
<1>4. QED
  BY <1>2, <1>3

LEMMA DatabaseKeeps ==
  ASSUME RetentionAssumption, RetentionInv, DatabaseCleanup
  PROVE  RetentionInv'
<1>0. /\ Types /\ UNCHANGED <<day, status, stoppedAt, snapshot, cleaned, files, del, raced>>
      /\ run' = NoRun
  BY DEF RetentionInv, DatabaseCleanup, meetingVars
<1> DEFINE who == run.who
           policy == run.policy
           old(m) == ExpiredTranscripts(who, policy, m)
<1>1. PICK failed :
       /\ live' = [m \in Meeting |-> IF "transcript" \in failed THEN live[m] ELSE live[m] \ old(m)]
       /\ dead' = [m \in Meeting |-> IF "transcript" \in failed THEN dead[m] ELSE dead[m] \cup old(m)]
       /\ summaries' = [m \in Meeting |->
            summaries[m] \ (IF "summary" \in failed THEN {} ELSE ExpiredSummaries(who, policy, m))]
       /\ title' = [m \in Meeting |->
            title[m] /\ ("summary" \in failed \/ ~TitleCleared(who, policy, m))]
  BY DEF DatabaseCleanup
<1>2. \A m \in Meeting : old(m) \subseteq live[m]
  BY DEF ExpiredTranscripts
<1> HIDE DEF who, policy, old
<1>3. live' \in [Meeting -> SUBSET Nat] /\ dead' \in [Meeting -> SUBSET Nat]
  BY <1>0, <1>1, <1>2 DEF Types
<1>4. summaries' \in [Meeting -> SUBSET Nat]
  BY <1>0, <1>1 DEF Types
<1>5. title' \in [Meeting -> BOOLEAN]
  BY <1>0, <1>1 DEF Types
<1>6. Types'
  BY <1>0, <1>3, <1>4, <1>5 DEF Types
<1>7. \A m \in Meeting : (Cleaning(m)' => Cleaning(m)) /\ (Found(m)' => Found(m))
  BY <1>0 DEF Cleaning, Found
<1>8. FoundIsCleaned' /\ Sealed' /\ PlannedOver' /\ Gone'
  BY <1>0, <1>7 DEF RetentionInv, FoundIsCleaned, Sealed, PlannedOver, Gone
<1>9. ASSUME NEW m \in Meeting, title'[m]  PROVE summaries'[m] # {}
  <2>1. title[m] /\ ("summary" \in failed \/ ~TitleCleared(who, policy, m))
    BY <1>1, <1>9
  <2>2. CASE "summary" \in failed
    BY <1>1, <2>1, <2>2 DEF RetentionInv, TitleNeedsSummary
  <2>3. CASE "summary" \notin failed
    BY <1>0, <1>1, <2>1, <2>3, TitleGoesToo DEF RetentionInv
  <2>4. QED
    BY <2>2, <2>3
<1>10. TitleNeedsSummary'
  BY <1>9 DEF TitleNeedsSummary
<1>11. BotPlans'
  BY <1>0, NoRunPlansNothing
<1>12. QED
  BY <1>6, <1>8, <1>10, <1>11 DEF RetentionInv

(***************************************************************************)
(* The deletion of a meeting.                                              *)
(***************************************************************************)

LEMMA UsageIsFiles ==
  ASSUME Types, NEW m \in Meeting, NEW targets
  PROVE  DeletePreview(m, targets) \in SUBSET Part
<1>1. \A s : MeetingUsage(m, s) \subseteq files[m]
  BY DEF MeetingUsage
<1>2. files[m] \subseteq Part
  BY DEF Types
<1>3. QED
  BY <1>1, <1>2 DEF DeletePreview

LEMMA DeleteKeeps ==
  ASSUME RetentionAssumption, RetentionInv, NEW m \in Meeting, MeetingDelete(m)
  PROVE  RetentionInv'
<1>0. /\ Types /\ UNCHANGED <<day, status, stoppedAt, snapshot, cleaned, title, live, dead, summaries, files, run, raced>>
      /\ status[m] \in Terminal /\ del = NoDelete
  BY DEF RetentionInv, MeetingDelete, meetingVars, rowVars
<1>1. PICK targets \in Targets :
        del' = [phase |-> "files", meeting |-> m, targets |-> targets, clean |-> {},
                estimate |-> DeletePreview(m, targets), freed |-> {}, reopened |-> {}, quiet |-> TRUE]
  BY DEF MeetingDelete
<1> DEFINE preview == DeletePreview(m, targets)
<1>2. preview \in SUBSET Part /\ targets \in SUBSET Scope
  BY <1>0, UsageIsFiles DEF RetentionAssumption, TargetsAssumption
<1>3. del' = [phase |-> "files", meeting |-> m, targets |-> targets, clean |-> {},
              estimate |-> preview, freed |-> {}, reopened |-> {}, quiet |-> TRUE]
  BY <1>1
<1> HIDE DEF preview
<1>4. del' \in Deletions
  BY <1>2, <1>3 DEF Deletions
<1>5. del'.meeting = m /\ del'.clean = {}
  BY <1>3
<1>6. Types'
  BY <1>0, <1>4 DEF Types
<1>7. \A n \in Meeting : (Cleaning(n)' => Cleaning(n) \/ n = m) /\ (Found(n)' => Found(n))
  BY <1>0, <1>5 DEF Cleaning, Found
<1>8. FoundIsCleaned' /\ Sealed' /\ PlannedOver' /\ Gone' /\ TitleNeedsSummary'
  <2>1. PlannedOver'
    BY <1>0, <1>5 DEF RetentionInv, PlannedOver
  <2>2. QED
    BY <1>0, <1>5, <1>7, <2>1 DEF RetentionInv, FoundIsCleaned, Sealed, Gone, TitleNeedsSummary
<1>9. BotPlans'
  <2>1. CASE run = NoRun
    BY <1>0, <2>1, NoRunPlansNothing
  <2>2. CASE run # NoRun
    <3>1. day' \in Nat /\ day' >= day
      BY <1>0 DEF Types
    <3>2. QED
      BY <1>0, <2>2, <3>1, BotPlansKept DEF RetentionInv
  <2>3. QED
    BY <2>1, <2>2
<1>10. QED
  BY <1>6, <1>8, <1>9 DEF RetentionInv

LEMMA DeleteFilesKeeps ==
  ASSUME RetentionAssumption, RetentionInv, MeetingFilesystemDelete
  PROVE  RetentionInv'
<1> DEFINE m == del.meeting
<1>0. /\ Types /\ UNCHANGED <<day, status, stoppedAt, snapshot, cleaned, title, live, dead, summaries, raced>>
      /\ del.phase = "files" /\ run' = Disturbed(run)
  BY DEF RetentionInv, MeetingFilesystemDelete, meetingVars, rowVars
<1>1. del # NoDelete /\ del \in Deletions /\ m \in Meeting /\ del.clean \subseteq Meeting
  BY <1>0, Shapes, DeletionFields
<1>2. PICK broken \in Broken({m}, DeleteParts(del.targets)) :
       /\ RemoveDirs({m}, [n \in {m} |-> DeleteTargets(del.targets, broken[n])], broken)
       /\ del' = [del EXCEPT !.phase = "mark",
            !.freed = files[m] \ files'[m],
            !.quiet = @ /\ ~Faulty(broken),
            !.clean = IF "raw" \notin del.targets THEN {}
                      ELSE CleanWorkspaces({m}, [n \in Meeting |-> broken[n] \cap RawPart])]
  BY DEF MeetingFilesystemDelete
<1>3. /\ files'[m] = files[m] \ DeleteTargets(del.targets, broken[m])
      /\ \A n \in Meeting : files'[n] \subseteq files[n]
  BY <1>1, <1>2 DEF RemoveDirs, Removed
<1>4. files' \in [Meeting -> SUBSET Part]
  <2>1. files' = [n \in Meeting |-> files'[n]]
    BY <1>2 DEF RemoveDirs
  <2>2. \A n \in Meeting : files'[n] \in SUBSET Part
    BY <1>0, <1>3 DEF Types
  <2>3. QED
    BY <2>1, <2>2
<1> DEFINE freed == files[m] \ files'[m]
           quiet == del.quiet /\ ~Faulty(broken)
           clean == IF "raw" \notin del.targets THEN {}
                    ELSE CleanWorkspaces({m}, [n \in Meeting |-> broken[n] \cap RawPart])
<1>5. freed \in SUBSET Part /\ quiet \in BOOLEAN
  BY <1>0, <1>1 DEF Types
<1>6. clean \subseteq {m}
  BY DEF CleanWorkspaces
<1>7. m \in clean => files'[m] \cap RawPart = {}
  <2>1. SUFFICES ASSUME m \in clean  PROVE files'[m] \cap RawPart = {}
    OBVIOUS
  <2>2. "raw" \in del.targets
    BY <2>1
  <2>3. broken[m] \cap RawPart = {}
    BY <1>1, <2>1, <2>2 DEF CleanWorkspaces
  <2>4. RawPart \subseteq DeleteParts(del.targets)
    BY <2>2 DEF DeleteParts
  <2>5. "speakers" \notin broken[m]
    BY <2>3 DEF RawPart, AudioPart
  <2>6. RawPart \subseteq DeleteTargets(del.targets, broken[m])
    BY <2>3, <2>4, <2>5 DEF DeleteTargets
  <2>7. QED
    BY <1>3, <2>6
<1>8. del' = [del EXCEPT !.phase = "mark", !.freed = freed, !.quiet = quiet, !.clean = clean]
  BY <1>2
<1> HIDE DEF m, freed, quiet, clean
<1>9. del' \in Deletions
  BY <1>1, <1>5, <1>6, <1>8 DEF Deletions
<1>10. del'.meeting = m /\ del'.clean = clean /\ del'.phase = "mark" /\ del'.reopened = del.reopened
  BY <1>1, <1>8 DEF Deletions, m
<1>11. del' # NoDelete
  BY <1>10 DEF NoDelete
<1>12. /\ run' \in Runs \cup {NoRun} /\ (run' # NoRun <=> run # NoRun)
       /\ run # NoRun => /\ run'.who = run.who /\ run'.policy = run.policy
                         /\ run'.plan = run.plan /\ run'.clean = run.clean /\ run'.reopened = run.reopened
  BY <1>0, DisturbedRun
<1>13. Types'
  BY <1>0, <1>4, <1>9, <1>12 DEF Types
<1>14. FoundIsCleaned'
  BY <1>6, <1>10, <1>12 DEF RetentionInv, FoundIsCleaned
<1>15. \A n \in Meeting : Cleaning(n)' <=> Cleaning(n)
  BY <1>1, <1>10, <1>11, <1>12 DEF Cleaning, m
<1>16. \A n \in Meeting : Found(n)' => Found(n) \/ files'[n] \cap RawPart = {}
  BY <1>6, <1>7, <1>10, <1>12 DEF Found
<1>17. Sealed' /\ PlannedOver' /\ TitleNeedsSummary'
  <2>1. PlannedOver'
    BY <1>0, <1>1, <1>10, <1>12, PlannedKept DEF RetentionInv, m
  <2>2. QED
    BY <1>0, <1>15, <2>1 DEF RetentionInv, Sealed, TitleNeedsSummary
<1>18. Gone'
  BY <1>0, <1>3, <1>16 DEF RetentionInv, Gone
<1>19. BotPlans'
  <2>1. CASE run = NoRun
    BY <1>12, <2>1, NoRunPlansNothing
  <2>2. CASE run # NoRun
    <3>1. day' \in Nat /\ day' >= day
      BY <1>0 DEF Types
    <3>2. QED
      BY <1>0, <1>12, <2>2, <3>1, BotPlansKept DEF RetentionInv
  <2>3. QED
    BY <2>1, <2>2
<1>20. QED
  BY <1>13, <1>14, <1>17, <1>18, <1>19 DEF RetentionInv

LEMMA DeleteRowsKeeps ==
  ASSUME RetentionAssumption, RetentionInv, MeetingDatabaseDelete
  PROVE  RetentionInv'
<1> DEFINE m == del.meeting
<1>0. /\ Types /\ UNCHANGED <<day, status, stoppedAt, snapshot, files, run, raced>>
      /\ del.phase \in {"mark", "transcripts", "summaries", "artifacts"}
      /\ del' = IF del.phase = "artifacts" THEN NoDelete
                ELSE [del EXCEPT !.phase = FollowingStatement[@]]
  BY DEF RetentionInv, MeetingDatabaseDelete, meetingVars
<1>1. del # NoDelete /\ del \in Deletions /\ m \in Meeting
  BY <1>0, Shapes, DeletionFields
<1>d. /\ del' \in Deletions \cup {NoDelete}
      /\ del' # NoDelete => /\ del'.meeting = del.meeting /\ del'.clean = del.clean
                            /\ del'.reopened = del.reopened
  <2>1. CASE del.phase = "artifacts"
    BY <1>0, <2>1
  <2>2. CASE del.phase # "artifacts"
    <3>1. FollowingStatement[del.phase] \in {"transcripts", "summaries", "artifacts"}
      BY <1>0, <2>2 DEF FollowingStatement
    <3>2. del' = [del EXCEPT !.phase = FollowingStatement[del.phase]]
      BY <1>0, <2>2
    <3>3. QED
      BY <1>1, <3>1, <3>2 DEF Deletions
  <2>3. QED
    BY <2>1, <2>2
<1>2. PICK marks \in BOOLEAN, transcripts \in BOOLEAN, sums \in BOOLEAN :
        /\ cleaned' = [cleaned EXCEPT ![m] = @ \/ (marks /\ m \in del.clean)]
        /\ live' = [live EXCEPT ![m] = IF transcripts THEN {} ELSE @]
        /\ dead' = [dead EXCEPT ![m] = IF transcripts THEN @ \cup live[m] ELSE @]
        /\ summaries' = [summaries EXCEPT ![m] = IF sums THEN {} ELSE @]
        /\ title' = [title EXCEPT ![m] = @ /\ ~sums]
  <2>1. PICK fails \in BOOLEAN :
        LET hit(phase, s) == del.phase = phase /\ ~fails /\ Hit(m, s) IN
        /\ cleaned' = [cleaned EXCEPT ![m] = @ \/ (hit("mark", "raw") /\ m \in del.clean)]
        /\ live' = [live EXCEPT ![m] = IF hit("transcripts", "transcript") THEN {} ELSE @]
        /\ dead' = [dead EXCEPT ![m] = IF hit("transcripts", "transcript") THEN @ \cup live[m] ELSE @]
        /\ summaries' = [summaries EXCEPT ![m] = IF hit("summaries", "summary") THEN {} ELSE @]
        /\ title' = [title EXCEPT ![m] = @ /\ ~hit("summaries", "summary")]
    BY DEF MeetingDatabaseDelete
  <2> DEFINE marks == del.phase = "mark" /\ ~fails /\ Hit(m, "raw")
             transcripts == del.phase = "transcripts" /\ ~fails /\ Hit(m, "transcript")
             sums == del.phase = "summaries" /\ ~fails /\ Hit(m, "summary")
  <2>2. marks \in BOOLEAN /\ transcripts \in BOOLEAN /\ sums \in BOOLEAN
    OBVIOUS
  <2>3. /\ cleaned' = [cleaned EXCEPT ![m] = @ \/ (marks /\ m \in del.clean)]
        /\ live' = [live EXCEPT ![m] = IF transcripts THEN {} ELSE @]
        /\ dead' = [dead EXCEPT ![m] = IF transcripts THEN @ \cup live[m] ELSE @]
        /\ summaries' = [summaries EXCEPT ![m] = IF sums THEN {} ELSE @]
        /\ title' = [title EXCEPT ![m] = @ /\ ~sums]
    BY <2>1
  <2> HIDE DEF marks, transcripts, sums
  <2>4. QED
    BY <2>2, <2>3
<1> HIDE DEF m
<1>3. /\ cleaned' \in [Meeting -> BOOLEAN] /\ title' \in [Meeting -> BOOLEAN]
  BY <1>0, <1>2 DEF Types
<1>4. live' \in [Meeting -> SUBSET Nat] /\ dead' \in [Meeting -> SUBSET Nat]
  BY <1>0, <1>1, <1>2 DEF Types
<1>5. summaries' \in [Meeting -> SUBSET Nat]
  BY <1>0, <1>2 DEF Types
<1>6. Types'
  BY <1>0, <1>d, <1>3, <1>4, <1>5 DEF Types
<1>7. \A n \in Meeting : cleaned'[n] => cleaned[n] \/ (Found(n) /\ Cleaning(n))
  <2>1. ASSUME NEW n \in Meeting, cleaned'[n]  PROVE cleaned[n] \/ (n = m /\ m \in del.clean)
    BY <1>0, <1>2, <2>1 DEF Types
  <2>2. QED
    BY <1>1, <2>1 DEF Found, Cleaning, m
<1>8. \A n \in Meeting : (Cleaning(n)' => Cleaning(n)) /\ (Found(n)' => Found(n))
  BY <1>0, <1>1, <1>d DEF Cleaning, Found
<1>9. Sealed' /\ PlannedOver' /\ Gone'
  <2>1. PlannedOver'
    BY <1>0, <1>1, <1>d, PlannedKept DEF RetentionInv
  <2>2. QED
    BY <1>0, <1>7, <1>8, <2>1 DEF RetentionInv, Sealed, Gone
<1>10. FoundIsCleaned'
  BY <1>0, <1>1, <1>d DEF RetentionInv, FoundIsCleaned
<1>11. ASSUME NEW n \in Meeting, title'[n]  PROVE summaries'[n] # {}
  <2>1. title[n] /\ (n = m => ~sums)
    BY <1>0, <1>2, <1>11 DEF Types
  <2>2. summaries'[n] = summaries[n]
    BY <1>0, <1>2, <2>1 DEF Types
  <2>3. QED
    BY <2>1, <2>2 DEF RetentionInv, TitleNeedsSummary
<1>12. TitleNeedsSummary'
  BY <1>11 DEF TitleNeedsSummary
<1>13. \A n \in Meeting : live'[n] \subseteq live[n] /\ summaries'[n] \subseteq summaries[n]
  BY <1>0, <1>2 DEF Types
<1>14. BotPlans'
  <2>1. CASE run = NoRun
    BY <1>0, <2>1, NoRunPlansNothing
  <2>2. CASE run # NoRun
    <3>1. day' \in Nat /\ day' >= day
      BY <1>0 DEF Types
    <3>2. QED
      BY <1>0, <1>13, <2>2, <3>1, BotPlansKept DEF RetentionInv
  <2>3. QED
    BY <2>1, <2>2
<1>15. QED
  BY <1>6, <1>9, <1>10, <1>12, <1>14 DEF RetentionInv

(***************************************************************************)
(* The theorems.                                                           *)
(***************************************************************************)

LEMMA InitRetention ==
  ASSUME RetentionAssumption, Init
  PROVE  RetentionInv
<1>1. /\ status \in [Meeting -> Terminal \cup {"recording", "stopping"}]
      /\ stoppedAt \in [Meeting -> Nat] /\ snapshot \in [Meeting -> Snapshots] /\ day \in Nat
  BY DEF Init, Terminal
<1>2. files \in [Meeting -> SUBSET Part]
  BY DEF Init, Part, RawPart, AudioPart
<1>3. live \in [Meeting -> SUBSET Nat] /\ summaries = live /\ dead \in [Meeting -> SUBSET Nat]
  BY DEF Init
<1>4. /\ cleaned \in [Meeting -> BOOLEAN] /\ title \in [Meeting -> BOOLEAN]
      /\ \A m \in Meeting : cleaned[m] = FALSE /\ (title[m] => status[m] = "posted")
  BY DEF Init
<1>5. run = NoRun /\ del = NoDelete
  BY DEF Init
<1>6. Types
  BY <1>1, <1>2, <1>3, <1>4, <1>5 DEF Types
<1>7. \A m \in Meeting : ~Cleaning(m) /\ ~Found(m)
  BY <1>5 DEF Cleaning, Found
<1>8. FoundIsCleaned /\ Sealed /\ PlannedOver /\ Gone /\ BotPlans
  BY <1>4, <1>5, <1>7 DEF FoundIsCleaned, Sealed, PlannedOver, Gone, BotPlans
<1>9. \A m \in Meeting : status[m] = "posted" => live[m] = {1}
  BY DEF Init
<1>10. TitleNeedsSummary
  BY <1>3, <1>4, <1>9 DEF TitleNeedsSummary
<1>11. QED
  BY <1>6, <1>8, <1>10 DEF RetentionInv

LEMMA StepRetention ==
  ASSUME RetentionAssumption, RetentionInv, [Next]_vars
  PROVE  RetentionInv'
<1>0. day \in Nat /\ Policy \in Lifetimes /\ AdminPolicy \subseteq Lifetimes
  BY DEF RetentionInv, Types, RetentionAssumption, PolicyAssumption
<1>1. CASE NextDay
  BY <1>0, <1>1, QuietSteps DEF NextDay
<1>2. CASE RunRetentionCleanup
  <2>1. PICK failed \in SUBSET Scope : StartRun("bot", Policy, failed)
    BY <1>2 DEF RunRetentionCleanup
  <2>2. run = NoRun /\ UNCHANGED <<day, meetingVars, rowVars, files, del, raced>>
    BY <1>2 DEF RunRetentionCleanup
  <2>3. QED
    BY <1>0, <2>1, <2>2, StartKeeps
<1>3. CASE AdminCleanupRun
  <2>1. PICK policy \in AdminPolicy : StartRun("admin", policy, {})
    BY <1>3 DEF AdminCleanupRun
  <2>2. run = NoRun /\ UNCHANGED <<day, meetingVars, rowVars, files, del, raced>>
    BY <1>3 DEF AdminCleanupRun
  <2>3. QED
    BY <1>0, <2>1, <2>2, StartKeeps
<1>4. CASE FilesystemCleanup
  BY <1>4, FilesystemKeeps
<1>5. CASE MarkRawWorkspaceCleaned
  BY <1>5, MarkKeeps
<1>6. CASE DatabaseCleanup
  BY <1>6, DatabaseKeeps
<1>7. CASE MeetingFilesystemDelete
  BY <1>7, DeleteFilesKeeps
<1>8. CASE MeetingDatabaseDelete
  BY <1>8, DeleteRowsKeeps
<1>9. CASE \E m \in Meeting : MeetingDelete(m) \/ RetryJob(m) \/ StopRecording(m) \/ ProcessMeeting(m)
  BY <1>9, DeleteKeeps, RetryKeeps, StopKeeps, ProcessKeeps
<1>10. CASE \E m \in Meeting : RetryInput(m)
  <2>1. day' = day /\ UNCHANGED <<meetingVars, rowVars, files, run, del, raced>>
    BY <1>10 DEF RetryInput
  <2>2. QED
    BY <1>0, <2>1, QuietSteps
<1>11. CASE UNCHANGED vars
  BY <1>0, <1>11, QuietSteps DEF vars
<1>12. QED
  BY <1>1, <1>2, <1>3, <1>4, <1>5, <1>6, <1>7, <1>8, <1>9, <1>10, <1>11 DEF Next

(* The invariant of retention: what has been found clean or marked is empty, *)
(* its meeting is over or was reopened on the way, and what the bot has      *)
(* planned to remove stays expired unless it was reopened since              *)
(* (apply_retention_filesystem_cleanup,                                      *)
(* apply_manual_meeting_filesystem_delete).                                  *)
THEOREM RetentionInvariant ==
  ASSUME RetentionAssumption
  PROVE  Spec => []RetentionInv
<1>1. Init => RetentionInv
  BY InitRetention
<1>2. RetentionInv /\ [Next]_vars => RetentionInv'
  BY StepRetention
<1>3. QED
  BY <1>1, <1>2, PTL DEF Spec

(* A meeting marked as cleaned has nothing left of its raw workspace,        *)
(* however many removals and statements failed, and whichever of cleanup,    *)
(* administrator's run and deletion marked it                                *)
(* (raw_workspace_cleaned_meeting_ids, RETENTION_MARK_RAW_WORKSPACE_CLEANED). *)
THEOREM CleanedIsGone ==
  ASSUME RetentionAssumption
  PROVE  Spec => []CleanedMeansGone
<1>1. RetentionInv => CleanedMeansGone
  BY DEF RetentionInv, Gone, CleanedMeansGone
<1>2. QED
  BY <1>1, RetentionInvariant, PTL

(* A title never outlives the last summary, which expires in one statement   *)
(* and is deleted in another (TitleCleared, RETENTION_DELETE_SUMMARIES_SQL). *)
THEOREM TitlesNeedSummaries ==
  ASSUME RetentionAssumption
  PROVE  Spec => []TitleNeedsSummary
<1>1. RetentionInv => TitleNeedsSummary
  BY DEF RetentionInv
<1>2. QED
  BY <1>1, RetentionInvariant, PTL

(* Only the two removals take files away, each from what it has planned. *)
LEMMA OnlyRemovals ==
  ASSUME RetentionAssumption, RetentionInv, [Next]_vars, NEW m \in Meeting, ~(files[m] \subseteq files'[m])
  PROVE  /\ Cleaning(m)
         /\ \/ FilesystemCleanup /\ run # NoRun /\ m \in run.plan[run.phase]
            \/ MeetingFilesystemDelete /\ del # NoDelete /\ m = del.meeting
<1>0. Types
  BY DEF RetentionInv
<1>1. CASE FilesystemCleanup
  <2>1. run # NoRun /\ run.phase \in Scope
    BY <1>0, <1>1, Shapes DEF FilesystemCleanup, Following, Scope
  <2>2. m \in run.plan[run.phase]
    BY <1>1 DEF FilesystemCleanup, RemoveDirs
  <2>3. QED
    BY <1>1, <2>1, <2>2 DEF Cleaning
<1>2. CASE MeetingFilesystemDelete
  <2>1. del # NoDelete
    BY <1>0, <1>2, Shapes DEF MeetingFilesystemDelete
  <2>2. del.meeting = m
    BY <1>2 DEF MeetingFilesystemDelete, RemoveDirs
  <2>3. QED
    BY <1>2, <2>1, <2>2 DEF Cleaning
<1>3. CASE \E n \in Meeting : ProcessMeeting(n)
  BY <1>0, <1>3 DEF ProcessMeeting, Types
<1>4. CASE files' = files
  BY <1>4
<1>5. QED
  BY <1>1, <1>2, <1>3, <1>4
  DEF Next, vars, NextDay, RunRetentionCleanup, AdminCleanupRun, MarkRawWorkspaceCleaned, DatabaseCleanup,
      MeetingDatabaseDelete, MeetingDelete, RetryInput, RetryJob, StopRecording

Listed == artifacts \in [Meeting -> SUBSET Artifact]

(* Only a cleanup and a deletion take rows away, of a meeting that is over.  *)
LEMMA OnlyOverLoseRows ==
  ASSUME RetentionAssumption, RetentionInv, Listed, [Next]_vars, NEW m \in Meeting, status[m] \notin Terminal
  PROVE  /\ live[m] \subseteq live'[m] /\ summaries[m] \subseteq summaries'[m]
         /\ artifacts[m] \subseteq artifacts'[m] /\ (title[m] => title'[m])
<1>0. Types
  BY DEF RetentionInv
<1>1. CASE DatabaseCleanup
  <2>1. /\ ExpiredTranscripts(run.who, run.policy, m) = {} /\ ExpiredSummaries(run.who, run.policy, m) = {}
        /\ ExpiredArtifacts(run.who, run.policy, m) = {} /\ ~TitleCleared(run.who, run.policy, m)
    BY DEF ExpiredTranscripts, ExpiredSummaries, ExpiredArtifacts, TitleCleared, SummaryWorkspaces
  <2>2. QED
    BY <1>0, <1>1, <2>1 DEF DatabaseCleanup, Types
<1>2. CASE MeetingDatabaseDelete
  <2>1. \A s : ~Hit(m, s)
    BY DEF Hit
  <2>2. CASE del.meeting = m
    BY <1>0, <1>2, <2>1, <2>2 DEF MeetingDatabaseDelete, Types, Listed
  <2>3. CASE del.meeting # m
    BY <1>0, <1>2, <2>3 DEF MeetingDatabaseDelete, Types, Listed
  <2>4. QED
    BY <2>2, <2>3
<1>3. CASE \E n \in Meeting : ProcessMeeting(n)
  <2>1. PICK n \in Meeting : ProcessMeeting(n)
    BY <1>3
  <2>2. CASE n # m
    BY <1>0, <2>1, <2>2 DEF ProcessMeeting, Types
  <2>3. CASE n = m
    BY <1>0, <2>1, <2>3 DEF ProcessMeeting, Types
  <2>4. QED
    BY <2>2, <2>3
<1>4. CASE UNCHANGED <<live, summaries, artifacts, title>>
  BY <1>4
<1>5. QED
  BY <1>1, <1>2, <1>3, <1>4
  DEF Next, vars, rowVars, NextDay, RunRetentionCleanup, AdminCleanupRun, FilesystemCleanup,
      MarkRawWorkspaceCleaned, MeetingFilesystemDelete, MeetingDelete, RetryInput, RetryJob, StopRecording

(* The bot removes nothing before the lifetime fixed for the meeting is      *)
(* over, although days pass and rows are deleted between its queries and its *)
(* removals, except of a meeting that is reopened in between                 *)
(* (collect_retention_cleanup_plan).                                         *)
THEOREM LifetimesAreKept ==
  ASSUME RetentionAssumption
  PROVE  Spec => SnapshotKeeps
<1>1. RetentionInv /\ [Next]_vars => [SnapshotKeepsStep]_vars
  <2>1. ASSUME RetentionInv, [Next]_vars, NEW m \in Meeting, m \notin run.reopened, Loses(m), run.who = "bot",
               NEW s \in {"raw", "transcript", "summary"}, CleansUp(s)
        PROVE  run # NoRun /\ m \in run.plan[s] /\ StaysExpired(m)
    <3>1. \/ FilesystemCleanup /\ run # NoRun /\ m \in run.plan[run.phase]
          \/ MeetingFilesystemDelete
      BY <2>1, OnlyRemovals DEF Loses
    <3>2. run.phase = s /\ run'.phase # run.phase
      BY <2>1 DEF CleansUp, Following
    <3>3. ~MeetingFilesystemDelete
      <4>1. SUFFICES ASSUME MeetingFilesystemDelete  PROVE FALSE
        OBVIOUS
      <4>2. run' = Disturbed(run) /\ Types /\ run # NoRun
        BY <2>1, <3>2, <4>1, Shapes DEF MeetingFilesystemDelete, RetentionInv
      <4>3. QED
        BY <3>2, <4>2, DisturbedRun
    <3>4. QED
      BY <2>1, <3>1, <3>2, <3>3 DEF RetentionInv, BotPlans
  <2>2. QED
    BY <2>1 DEF SnapshotKeepsStep, StaysExpired
<1>2. QED
  BY <1>1, RetentionInvariant, PTL DEF Spec, SnapshotKeeps

(***************************************************************************)
(* The previews.  A run or a deletion that nothing disturbs has freed what *)
(* it announced, but for what it has yet to remove.                        *)
(***************************************************************************)

LocalRaw == RawPart \ {"objects"}

Awaits(m, p) ==
    /\ p \in files[m]
    /\ \/ /\ run.phase = "raw"
          /\ m \in run.plan["raw"] /\ p \in LocalRaw \cup DebugPart
       \/ /\ run.phase \in {"raw", "debug"}
          /\ m \in run.plan["debug"] /\ p \in DebugPart
       \/ /\ run.phase \in {"raw", "debug", "transcript"}
          /\ m \in run.plan["transcript"] /\ p = "transcript"
       \/ /\ run.phase \in {"raw", "debug", "transcript", "summary"}
          /\ m \in run.plan["summary"] /\ p = "summary"

RunPredicted ==
    run # NoRun /\ run.quiet /\ run.phase # "rows" =>
        \A m \in Meeting, p \in Part :
            <<m, p>> \in run.estimate <=> (<<m, p>> \in run.freed /\ p # "objects") \/ Awaits(m, p)

DeletionPredicted ==
    del # NoDelete /\ del.quiet /\ del.phase \in {"files", "mark"} =>
        \A p \in Part :
            p \in del.estimate <=>
                /\ p # "objects"
                /\ \/ del.phase = "files" /\ p \in files[del.meeting] /\ p \in DeleteParts(del.targets)
                   \/ del.phase = "mark" /\ p \in del.freed

Predicted == RunPredicted /\ DeletionPredicted

LEMMA UsageOf ==
  ASSUME NEW m
  PROVE  /\ MeetingUsage(m, "raw") = files[m] \cap LocalRaw
         /\ MeetingUsage(m, "debug") = files[m] \cap DebugPart
         /\ MeetingUsage(m, "transcript") = files[m] \cap {"transcript"}
         /\ MeetingUsage(m, "summary") = files[m] \cap {"summary"}
<1>1. LocalRaw = {"audio", "speakers", "legacy", "context"}
  BY DEF LocalRaw, RawPart, AudioPart
<1>2. QED
  BY <1>1 DEF MeetingUsage

LEMMA Undisturbed ==
  ASSUME Types
  PROVE  /\ (run' = Disturbed(run) => RunPredicted')
         /\ (del' = Disturbed(del) => DeletionPredicted')
<1>1. ASSUME run' = Disturbed(run)  PROVE RunPredicted'
  <2>1. CASE run = NoRun
    BY <1>1, <2>1, Shapes DEF Disturbed, RunPredicted
  <2>2. CASE run # NoRun
    <3>1. run' = [run EXCEPT !.quiet = FALSE] /\ run \in Runs
      BY <1>1, <2>2, Shapes DEF Disturbed
    <3>2. run'.quiet = FALSE
      BY <3>1 DEF Runs
    <3>3. QED
      BY <3>2 DEF RunPredicted
  <2>3. QED
    BY <2>1, <2>2
<1>2. ASSUME del' = Disturbed(del)  PROVE DeletionPredicted'
  <2>1. CASE del = NoDelete
    BY <1>2, <2>1, Shapes DEF Disturbed, DeletionPredicted
  <2>2. CASE del # NoDelete
    <3>1. del' = [del EXCEPT !.quiet = FALSE] /\ del \in Deletions
      BY <1>2, <2>2, Shapes DEF Disturbed
    <3>2. del'.quiet = FALSE
      BY <3>1 DEF Deletions
    <3>3. QED
      BY <3>2 DEF DeletionPredicted
  <2>3. QED
    BY <2>1, <2>2
<1>3. QED
  BY <1>1, <1>2

LEMMA StartPredicts ==
  ASSUME Types, Predicted, NEW who, NEW policy, NEW failed \in SUBSET Scope, StartRun(who, policy, failed),
         UNCHANGED <<files, del>>
  PROVE  Predicted'
<1> DEFINE plan == CollectPlan(who, policy, failed)
           usage == PlanUsage(plan)
<1>1. run' = [phase |-> "raw", who |-> who, policy |-> policy, plan |-> plan,
              estimate |-> usage, freed |-> {}, clean |-> {}, reopened |-> {}, quiet |-> failed = {}]
  BY DEF StartRun
<1>2. ASSUME NEW m \in Meeting, NEW p \in Part
      PROVE  <<m, p>> \in usage <=>
               \/ \E s \in Scope : m \in plan[s] /\ p \in MeetingUsage(m, s)
               \/ m \in plan["raw"] /\ p \in MeetingUsage(m, "debug")
  BY DEF PlanUsage
<1> HIDE DEF plan, usage
<1>3. run'.phase = "raw" /\ run'.plan = plan /\ run'.estimate = usage /\ run'.freed = {}
  BY <1>1
<1>4. ASSUME NEW m \in Meeting, NEW p \in Part  PROVE <<m, p>> \in usage <=> Awaits(m, p)'
  BY <1>2, <1>3, UsageOf DEF Scope, Awaits
<1>5. RunPredicted'
  BY <1>3, <1>4 DEF RunPredicted
<1>6. DeletionPredicted'
  BY DEF Predicted, DeletionPredicted
<1>7. QED
  BY <1>5, <1>6 DEF Predicted

LEMMA CleanupPredicts ==
  ASSUME Types, Predicted, FilesystemCleanup
  PROVE  Predicted'
<1> DEFINE S == run.plan[run.phase]
<1>0. run.phase \in {"raw", "debug", "transcript", "summary"} /\ del' = Disturbed(del)
  BY DEF FilesystemCleanup, Following
<1>1. run # NoRun /\ run \in Runs /\ S \subseteq Meeting
  BY <1>0, Shapes, RunFields DEF Scope
<1>2. PICK broken \in Broken(S, PhaseParts[run.phase]) :
        /\ RemoveDirs(S, [m \in S |-> PhaseTargets(run.phase, broken[m])], broken)
        /\ run' = [run EXCEPT !.phase = Following[run.phase],
                              !.freed = @ \cup FreedBy(files, files'),
                              !.clean = IF run.phase = "raw" THEN CleanWorkspaces(S, broken) ELSE @,
                              !.quiet = @ /\ ~Faulty(broken)]
  BY DEF FilesystemCleanup
<1>3. /\ run'.phase = Following[run.phase] /\ run'.freed = run.freed \cup FreedBy(files, files')
      /\ run'.quiet = (run.quiet /\ ~Faulty(broken))
      /\ run'.estimate = run.estimate /\ run'.plan = run.plan
  BY <1>1, <1>2 DEF Runs
<1>4. SUFFICES ASSUME run.quiet, ~Faulty(broken)  PROVE RunPredicted'
  <2>1. DeletionPredicted'
    BY <1>0, Undisturbed
  <2>2. run'.quiet => run.quiet /\ ~Faulty(broken)
    BY <1>3
  <2>3. QED
    BY <1>4, <2>1, <2>2 DEF Predicted, RunPredicted
<1>5. \A m \in Meeting : broken[m] = {}
  BY <1>4 DEF Faulty
<1> DEFINE parts == IF run.phase = "raw" THEN RawPart \cup DebugPart ELSE PhaseParts[run.phase]
<1>6. PhaseTargets(run.phase, {}) = parts
  BY DEF PhaseTargets, RawTargets
<1>7. \A m \in Meeting : files'[m] = IF m \in S THEN files[m] \ parts ELSE files[m]
  BY <1>1, <1>2, <1>5, <1>6 DEF RemoveDirs, Removed
<1>8. \A m \in Meeting, p \in Part :
        <<m, p>> \in run'.freed <=> <<m, p>> \in run.freed \/ (m \in S /\ p \in files[m] /\ p \in parts)
  BY <1>3, <1>7 DEF FreedBy
<1>9. \A m \in Meeting, p \in Part :
        <<m, p>> \in run'.estimate <=> (<<m, p>> \in run.freed /\ p # "objects") \/ Awaits(m, p)
  BY <1>0, <1>1, <1>3, <1>4 DEF Predicted, RunPredicted
<1>10. ASSUME NEW m \in Meeting, NEW p \in Part
       PROVE  Awaits(m, p) <=> Awaits(m, p)' \/ (m \in S /\ p \in files[m] /\ p \in parts /\ p # "objects")
  <2>1. CASE run.phase = "raw"
    <3>1. S = run.plan["raw"] /\ parts = RawPart \cup DebugPart /\ run'.phase = "debug"
      BY <1>3, <2>1 DEF Following
    <3>2. "objects" \notin DebugPart /\ "transcript" \notin RawPart \cup DebugPart /\ "summary" \notin RawPart \cup DebugPart
      BY DEF DebugPart, RawPart, AudioPart
    <3>3. QED
      BY <1>3, <1>7, <2>1, <3>1, <3>2 DEF Awaits, LocalRaw
  <2>2. CASE run.phase = "debug"
    <3>1. S = run.plan["debug"] /\ parts = DebugPart /\ run'.phase = "transcript"
      BY <1>3, <2>2 DEF Following, PhaseParts
    <3>2. "objects" \notin DebugPart /\ "transcript" \notin DebugPart /\ "summary" \notin DebugPart
      BY DEF DebugPart
    <3>3. QED
      BY <1>3, <1>7, <2>2, <3>1, <3>2 DEF Awaits
  <2>3. CASE run.phase = "transcript"
    <3>1. S = run.plan["transcript"] /\ parts = {"transcript"} /\ run'.phase = "summary"
      BY <1>3, <2>3 DEF Following, PhaseParts
    <3>2. QED
      BY <1>3, <1>7, <2>3, <3>1 DEF Awaits
  <2>4. CASE run.phase = "summary"
    <3>1. S = run.plan["summary"] /\ parts = {"summary"} /\ run'.phase = "mark"
      BY <1>3, <2>4 DEF Following, PhaseParts
    <3>2. QED
      BY <1>3, <1>7, <2>4, <3>1 DEF Awaits
  <2>5. QED
    BY <1>0, <2>1, <2>2, <2>3, <2>4
<1> HIDE DEF S, parts
<1>11. QED
  BY <1>8, <1>9, <1>10 DEF RunPredicted

LEMMA DeletePredicts ==
  ASSUME RetentionAssumption, Types, Predicted, NEW m \in Meeting, MeetingDelete(m)
  PROVE  Predicted'
<1>1. UNCHANGED <<files, run>>
  BY DEF MeetingDelete
<1>2. PICK targets \in Targets :
        del' = [phase |-> "files", meeting |-> m, targets |-> targets, clean |-> {},
                estimate |-> DeletePreview(m, targets), freed |-> {}, reopened |-> {}, quiet |-> TRUE]
  BY DEF MeetingDelete
<1>3. targets \subseteq Scope
  BY DEF RetentionAssumption, TargetsAssumption
<1>4. /\ del'.phase = "files" /\ del'.meeting = m /\ del'.targets = targets
      /\ del'.estimate = DeletePreview(m, targets)
  BY <1>2
<1>5. ASSUME NEW p \in Part, NEW s \in targets
      PROVE  p \in MeetingUsage(m, s) <=>
               p # "objects" /\ p \in files[m] /\ p \in (IF s = "raw" THEN RawPart ELSE PhaseParts[s])
  <2>1. s \in {"raw", "transcript", "summary", "debug"}
    BY <1>3 DEF Scope
  <2>2. "objects" \notin DebugPart
    BY DEF DebugPart
  <2>3. /\ PhaseParts["debug"] = DebugPart /\ PhaseParts["transcript"] = {"transcript"}
        /\ PhaseParts["summary"] = {"summary"}
    BY DEF PhaseParts
  <2>4. QED
    BY <2>1, <2>2, <2>3, UsageOf DEF LocalRaw
<1>6. ASSUME NEW p \in Part
      PROVE  p \in DeletePreview(m, targets) <=> p # "objects" /\ p \in files[m] /\ p \in DeleteParts(targets)
  BY <1>5 DEF DeletePreview, DeleteParts
<1>7. DeletionPredicted'
  BY <1>1, <1>4, <1>6 DEF DeletionPredicted
<1>8. RunPredicted'
  <2>1. \A n \in Meeting, p \in Part : Awaits(n, p)' <=> Awaits(n, p)
    BY <1>1 DEF Awaits
  <2>2. QED
    BY <1>1, <2>1 DEF Predicted, RunPredicted
<1>9. QED
  BY <1>7, <1>8 DEF Predicted

LEMMA DeleteFilesPredicts ==
  ASSUME Types, Predicted, MeetingFilesystemDelete
  PROVE  Predicted'
<1> DEFINE m == del.meeting
<1>0. del.phase = "files" /\ run' = Disturbed(run)
  BY DEF MeetingFilesystemDelete
<1>1. del # NoDelete /\ del \in Deletions /\ m \in Meeting
  BY <1>0, Shapes, DeletionFields
<1>2. PICK broken \in Broken({m}, DeleteParts(del.targets)) :
       /\ RemoveDirs({m}, [n \in {m} |-> DeleteTargets(del.targets, broken[n])], broken)
       /\ del' = [del EXCEPT !.phase = "mark",
            !.freed = files[m] \ files'[m],
            !.quiet = @ /\ ~Faulty(broken),
            !.clean = IF "raw" \notin del.targets THEN {}
                      ELSE CleanWorkspaces({m}, [n \in Meeting |-> broken[n] \cap RawPart])]
  BY DEF MeetingFilesystemDelete
<1>3. /\ del'.phase = "mark" /\ del'.freed = files[m] \ files'[m]
      /\ del'.quiet = (del.quiet /\ ~Faulty(broken)) /\ del'.estimate = del.estimate
  BY <1>1, <1>2 DEF Deletions
<1>4. ASSUME del.quiet, ~Faulty(broken), NEW p \in Part
      PROVE  p \in del'.estimate <=> p # "objects" /\ p \in del'.freed
  <2>1. broken[m] = {}
    BY <1>1, <1>4 DEF Faulty
  <2>2. DeleteTargets(del.targets, {}) = DeleteParts(del.targets)
    BY DEF DeleteTargets
  <2>3. files'[m] = files[m] \ DeleteParts(del.targets)
    BY <1>1, <1>2, <2>1, <2>2 DEF RemoveDirs, Removed
  <2>4. p \in del.estimate <=> p # "objects" /\ p \in files[m] /\ p \in DeleteParts(del.targets)
    BY <1>0, <1>1, <1>4 DEF Predicted, DeletionPredicted
  <2>5. QED
    BY <1>3, <2>3, <2>4
<1>5. DeletionPredicted'
  BY <1>3, <1>4 DEF DeletionPredicted
<1>6. RunPredicted'
  BY <1>0, Undisturbed
<1>7. QED
  BY <1>5, <1>6 DEF Predicted

LEMMA StepPredicts ==
  ASSUME RetentionAssumption, RetentionInv, Predicted, [Next]_vars
  PROVE  Predicted'
<1>0. Types
  BY DEF RetentionInv
<1>1. CASE RunRetentionCleanup
  <2>1. PICK failed \in SUBSET Scope : StartRun("bot", Policy, failed)
    BY <1>1 DEF RunRetentionCleanup
  <2>2. UNCHANGED <<files, del>>
    BY <1>1 DEF RunRetentionCleanup
  <2>3. QED
    BY <1>0, <2>1, <2>2, StartPredicts
<1>2. CASE AdminCleanupRun
  <2>1. PICK policy \in AdminPolicy : StartRun("admin", policy, {})
    BY <1>2 DEF AdminCleanupRun
  <2>2. UNCHANGED <<files, del>> /\ {} \in SUBSET Scope
    BY <1>2 DEF AdminCleanupRun
  <2>3. QED
    BY <1>0, <2>1, <2>2, StartPredicts
<1>3. CASE FilesystemCleanup
  BY <1>0, <1>3, CleanupPredicts
<1>4. CASE MarkRawWorkspaceCleaned
  <2>1. run.phase = "mark" /\ run' = [run EXCEPT !.phase = "rows"] /\ UNCHANGED <<files, del>>
    BY <1>4 DEF MarkRawWorkspaceCleaned
  <2>2. run \in Runs
    BY <1>0, <2>1, Shapes
  <2>3. run'.phase = "rows"
    BY <2>1, <2>2 DEF Runs
  <2>4. QED
    BY <2>1, <2>3 DEF Predicted, RunPredicted, DeletionPredicted
<1>5. CASE DatabaseCleanup
  BY <1>5 DEF DatabaseCleanup, Predicted, RunPredicted, DeletionPredicted
<1>6. CASE MeetingFilesystemDelete
  BY <1>0, <1>6, DeleteFilesPredicts
<1>7. CASE MeetingDatabaseDelete
  <2>1. UNCHANGED <<files, run>> /\ del.phase \in {"mark", "transcripts", "summaries", "artifacts"}
        /\ del' = (IF del.phase = "artifacts" THEN NoDelete ELSE [del EXCEPT !.phase = FollowingStatement[@]])
    BY <1>7 DEF MeetingDatabaseDelete
  <2>2. del \in Deletions
    BY <1>0, <2>1, Shapes
  <2>3. del' = NoDelete \/ del'.phase \notin {"files", "mark"}
    BY <2>1, <2>2 DEF Deletions, FollowingStatement
  <2>4. QED
    BY <2>1, <2>3 DEF Predicted, RunPredicted, DeletionPredicted, Awaits
<1>8. CASE \E m \in Meeting : MeetingDelete(m)
  BY <1>0, <1>8, DeletePredicts
<1>9. CASE \E m \in Meeting : ProcessMeeting(m)
  BY <1>0, <1>9, Undisturbed DEF ProcessMeeting, Predicted
<1>10. CASE UNCHANGED <<files, run, del>>
  BY <1>10 DEF Predicted, RunPredicted, DeletionPredicted, Awaits
<1>11. CASE \E m \in Meeting : RetryJob(m) /\ run' = Reopened(run, m) /\ del' = Reopened(del, m)
  <2>1. PICK m \in Meeting : run' = Reopened(run, m) /\ del' = Reopened(del, m) /\ files' = files
    BY <1>11 DEF RetryJob
  <2>2. /\ run' # NoRun <=> run # NoRun
        /\ run # NoRun => /\ run'.phase = run.phase /\ run'.plan = run.plan /\ run'.quiet = run.quiet
                          /\ run'.estimate = run.estimate /\ run'.freed = run.freed
    BY <1>0, <2>1, ReopenedRun
  <2>3. /\ del' # NoDelete <=> del # NoDelete
        /\ del # NoDelete => /\ del'.phase = del.phase /\ del'.meeting = del.meeting
                             /\ del'.targets = del.targets /\ del'.quiet = del.quiet
                             /\ del'.estimate = del.estimate /\ del'.freed = del.freed
    BY <1>0, <2>1, ReopenedDeletion
  <2>4. RunPredicted'
    <3>1. SUFFICES ASSUME run # NoRun  PROVE RunPredicted'
      BY <2>2 DEF RunPredicted
    <3>2. \A n \in Meeting, p \in Part : Awaits(n, p)' <=> Awaits(n, p)
      BY <2>1, <2>2, <3>1 DEF Awaits
    <3>3. QED
      BY <2>2, <3>1, <3>2 DEF Predicted, RunPredicted
  <2>5. DeletionPredicted'
    BY <2>1, <2>3 DEF Predicted, DeletionPredicted
  <2>6. QED
    BY <2>4, <2>5 DEF Predicted
<1>12. QED
  BY <1>1, <1>2, <1>3, <1>4, <1>5, <1>6, <1>7, <1>8, <1>9, <1>10, <1>11
  DEF Next, vars, NextDay, RetryInput, RetryJob, StopRecording

(* What the preview announces is what an undisturbed cleanup or deletion     *)
(* without errors frees, although the preview walks the directories on its   *)
(* own (estimate_plan_filesystem_usage, estimate_meeting_filesystem_usage).  *)
THEOREM PreviewsAreExact ==
  ASSUME RetentionAssumption
  PROVE  Spec => []PreviewIsExact
<1>1. Init => Predicted
  BY DEF Init, Predicted, RunPredicted, DeletionPredicted
<1>2. RetentionInv /\ Predicted /\ [Next]_vars => Predicted'
  BY StepPredicts
<1>3. RetentionInv /\ Predicted => PreviewIsExact
  <2>1. SUFFICES ASSUME RetentionInv, Predicted  PROVE PreviewIsExact
    OBVIOUS
  <2>2. ASSUME run.phase = "mark", run.quiet
        PROVE  run.estimate = {f \in run.freed : f[2] # "objects"}
    <3>1. run # NoRun /\ run.estimate \subseteq Meeting \X Part /\ run.freed \subseteq Meeting \X Part
      BY <2>1, <2>2, Shapes DEF RetentionInv, Runs
    <3>2. \A m \in Meeting, p \in Part :
            <<m, p>> \in run.estimate <=> <<m, p>> \in run.freed /\ p # "objects"
      BY <2>1, <2>2, <3>1 DEF Predicted, RunPredicted, Awaits
    <3>3. QED
      BY <3>1, <3>2
  <2>3. ASSUME del.phase = "mark", del.quiet
        PROVE  del.estimate = del.freed \ {"objects"}
    <3>1. del # NoDelete /\ del.estimate \subseteq Part /\ del.freed \subseteq Part
      BY <2>1, <2>3, Shapes DEF RetentionInv, Deletions
    <3>2. \A p \in Part : p \in del.estimate <=> p # "objects" /\ p \in del.freed
      BY <2>1, <2>3, <3>1 DEF Predicted, DeletionPredicted
    <3>3. QED
      BY <3>1, <3>2
  <2>4. QED
    BY <2>2, <2>3 DEF PreviewIsExact
<1>4. QED
  BY <1>1, <1>2, <1>3, RetentionInvariant, PTL DEF Spec

(***************************************************************************)
(* Type correctness: a transcript row is live or deleted and never both,   *)
(* and every count stays within its bound.                                 *)
(***************************************************************************)

Counts ==
    faults \in 0 .. MaxFaults /\ retries \in 0 .. MaxRetries /\ deletes \in 0 .. MaxDeletes

Dates ==
    day \in 1 .. MaxDay /\ \A m \in Meeting : stoppedAt[m] \in 0 .. MaxDay

RowsApart == \A m \in Meeting : live[m] \cap dead[m] = {}

Named == del # NoDelete => del.targets # {}

Bounds == Counts /\ Dates /\ RowsApart /\ Listed /\ Named

LEMMA InitBounds ==
  ASSUME RetentionAssumption, Init
  PROVE  Bounds
<1>1. Counts /\ Dates
  BY DEF Init, Counts, Dates, RetentionAssumption, BoundAssumption
<1>2. RowsApart /\ Named
  BY DEF Init, RowsApart, Named
<1>3. Listed
  <2> DEFINE Rows == {[kind |-> k, at |-> 1, expires |-> e] : k \in Scope, e \in {0, 2}}
  <2>1. ASSUME NEW a \in Rows  PROVE a \in Artifact
    <3>1. PICK k \in Scope, e \in {0, 2} : a = [kind |-> k, at |-> 1, expires |-> e]
      BY <2>1
    <3>2. QED
      BY <3>1 DEF Artifact
  <2>2. artifacts = [m \in Meeting |-> IF status[m] = "posted" THEN Rows ELSE {}]
    BY DEF Init
  <2>3. QED
    BY <2>1, <2>2 DEF Listed
<1>4. QED
  BY <1>1, <1>2, <1>3 DEF Bounds

LEMMA CountedFault ==
  ASSUME RetentionAssumption, Counts, NEW b, b => faults < MaxFaults, CountFault(b)
  PROVE  faults' \in 0 .. MaxFaults
BY DEF Counts, CountFault, RetentionAssumption, BoundAssumption

LEMMA FaultyRemoval ==
  ASSUME NEW S, NEW parts, NEW broken \in Broken(S, parts), Faulty(broken)
  PROVE  faults < MaxFaults
<1>1. CASE broken = [m \in Meeting |-> {}]
  BY <1>1 DEF Faulty
<1>2. CASE broken # [m \in Meeting |-> {}]
  BY <1>2 DEF Broken
<1>3. QED
  BY <1>1, <1>2

(* Days, retries and what a meeting does. *)
LEMMA MeetingsBounded ==
  ASSUME RetentionAssumption, Types, Bounds, NEW m \in Meeting,
         NextDay \/ RetryInput(m) \/ RetryJob(m) \/ StopRecording(m) \/ ProcessMeeting(m)
  PROVE  Bounds'
<1>1. Counts'
  <2>1. UNCHANGED <<faults, deletes>> /\ (retries' = retries \/ (retries < MaxRetries /\ retries' = retries + 1))
    BY DEF NextDay, RetryInput, RetryJob, StopRecording, ProcessMeeting, countVars
  <2>2. QED
    BY <2>1 DEF Bounds, Counts, RetentionAssumption, BoundAssumption
<1>2. Dates'
  <2>1. (day' = day /\ (stoppedAt' = stoppedAt \/ stoppedAt' = [stoppedAt EXCEPT ![m] = day]))
        \/ (day < MaxDay /\ day' = day + 1 /\ stoppedAt' = stoppedAt)
    BY DEF NextDay, RetryInput, RetryJob, StopRecording, ProcessMeeting, meetingVars
  <2>2. stoppedAt \in [Meeting -> Nat] /\ MaxDay \in Nat
    BY DEF Types, RetentionAssumption, BoundAssumption
  <2>3. QED
    BY <2>1, <2>2 DEF Bounds, Dates
<1>3. RowsApart'
  <2>1. CASE UNCHANGED <<live, dead>>
    BY <2>1 DEF Bounds, RowsApart
  <2>2. CASE ~UNCHANGED <<live, dead>>
    <3>1. ProcessMeeting(m)
      BY <2>2 DEF NextDay, RetryInput, RetryJob, StopRecording, rowVars
    <3>2. /\ live \in [Meeting -> SUBSET Nat] /\ dead \in [Meeting -> SUBSET Nat]
      BY DEF Types
    <3>3. \A n \in Meeting : n # m => live'[n] = live[n] /\ dead'[n] = dead[n]
      BY <3>1, <3>2 DEF ProcessMeeting
    <3>4. (live'[m] = live[m] /\ dead'[m] = dead[m]) \/ dead'[m] = {}
      BY <3>1, <3>2 DEF ProcessMeeting
    <3>5. QED
      BY <3>3, <3>4 DEF Bounds, RowsApart
  <2>3. QED
    BY <2>1, <2>2
<1>4. Listed'
  BY DEF NextDay, RetryInput, RetryJob, StopRecording, ProcessMeeting, rowVars, Bounds, Listed
<1>5. Named'
  <2>1. del' = del \/ del' = Disturbed(del) \/ del' = Reopened(del, m)
    BY DEF NextDay, RetryInput, RetryJob, StopRecording, ProcessMeeting
  <2>2. QED
    BY <2>1, DisturbedDeletion, ReopenedDeletion DEF Bounds, Named
<1>6. QED
  BY <1>1, <1>2, <1>3, <1>4, <1>5 DEF Bounds

(* The cleanup. *)
LEMMA RunsBounded ==
  ASSUME RetentionAssumption, Types, Bounds,
         RunRetentionCleanup \/ AdminCleanupRun \/ FilesystemCleanup \/ MarkRawWorkspaceCleaned
  PROVE  Bounds'
<1>1. UNCHANGED <<day, stoppedAt, live, dead, artifacts, retries, deletes>> /\ (del' = del \/ del' = Disturbed(del))
  BY DEF RunRetentionCleanup, AdminCleanupRun, FilesystemCleanup, MarkRawWorkspaceCleaned,
         meetingVars, rowVars, countVars
<1>2. faults' \in 0 .. MaxFaults
  <2>1. CASE RunRetentionCleanup
    <3>1. PICK failed \in {{}} \cup (IF faults < MaxFaults THEN {{s} : s \in Scope} ELSE {}) :
            CountFault(failed # {})
      BY <2>1 DEF RunRetentionCleanup
    <3>2. failed # {} => faults < MaxFaults
      BY <3>1
    <3>3. QED
      BY <3>1, <3>2, CountedFault DEF Bounds
  <2>2. CASE AdminCleanupRun
    BY <2>2 DEF AdminCleanupRun, countVars, Bounds, Counts
  <2>3. CASE FilesystemCleanup
    <3>1. PICK broken \in Broken(run.plan[run.phase], PhaseParts[run.phase]) : CountFault(Faulty(broken))
      BY <2>3 DEF FilesystemCleanup, RemoveDirs
    <3>2. Faulty(broken) => faults < MaxFaults
      BY <3>1, FaultyRemoval
    <3>3. QED
      BY <3>1, <3>2, CountedFault DEF Bounds
  <2>4. CASE MarkRawWorkspaceCleaned
    <3>1. PICK fails \in {FALSE} \cup (IF faults < MaxFaults THEN {TRUE} ELSE {}) : CountFault(fails)
      BY <2>4 DEF MarkRawWorkspaceCleaned
    <3>2. fails => faults < MaxFaults
      BY <3>1
    <3>3. QED
      BY <3>1, <3>2, CountedFault DEF Bounds
  <2>5. QED
    BY <2>1, <2>2, <2>3, <2>4
<1>3. Named'
  BY <1>1, DisturbedDeletion DEF Bounds, Named
<1>4. QED
  BY <1>1, <1>2, <1>3 DEF Bounds, Counts, Dates, RowsApart, Listed

LEMMA RowsBounded ==
  ASSUME RetentionAssumption, Types, Bounds, DatabaseCleanup
  PROVE  Bounds'
<1>1. PICK failed \in {{}} \cup (IF faults < MaxFaults THEN {{s} : s \in Scope} ELSE {}) :
        /\ live' = [m \in Meeting |-> IF "transcript" \in failed THEN live[m]
                                      ELSE live[m] \ ExpiredTranscripts(run.who, run.policy, m)]
        /\ dead' = [m \in Meeting |-> IF "transcript" \in failed THEN dead[m]
                                      ELSE dead[m] \cup ExpiredTranscripts(run.who, run.policy, m)]
        /\ artifacts' = [m \in Meeting |->
             {a \in artifacts[m] : a \in ExpiredArtifacts(run.who, run.policy, m) => a.kind \in failed}]
        /\ CountFault(failed # {})
  BY DEF DatabaseCleanup
<1>2. faults' \in 0 .. MaxFaults
  <2>1. failed # {} => faults < MaxFaults
    BY <1>1
  <2>2. QED
    BY <1>1, <2>1, CountedFault DEF Bounds
<1>3. RowsApart'
  BY <1>1 DEF Bounds, RowsApart
<1>4. Listed'
  BY <1>1 DEF Bounds, Listed
<1>5. UNCHANGED <<day, stoppedAt, del, retries, deletes>>
  BY DEF DatabaseCleanup, meetingVars
<1>6. QED
  BY <1>2, <1>3, <1>4, <1>5 DEF Bounds, Counts, Dates, Named

(* The deletion. *)
LEMMA DeletionBounded ==
  ASSUME RetentionAssumption, Types, Bounds, NEW m \in Meeting,
         MeetingDelete(m) \/ MeetingFilesystemDelete \/ MeetingDatabaseDelete
  PROVE  Bounds'
<1>1. CASE MeetingDelete(m)
  <2>1. /\ UNCHANGED <<day, stoppedAt, live, dead, artifacts, faults, retries>>
        /\ deletes < MaxDeletes /\ deletes' = deletes + 1
    BY <1>1 DEF MeetingDelete, meetingVars, rowVars
  <2>2. Counts'
    BY <2>1 DEF Bounds, Counts, RetentionAssumption, BoundAssumption
  <2>3. \E targets \in Targets : del'.targets = targets
    BY <1>1 DEF MeetingDelete
  <2>4. Named'
    BY <2>3 DEF Named, RetentionAssumption, TargetsAssumption
  <2>5. QED
    BY <2>1, <2>2, <2>4 DEF Bounds, Dates, RowsApart, Listed
<1>2. CASE MeetingFilesystemDelete
  <2>1. /\ UNCHANGED <<day, stoppedAt, live, dead, artifacts, retries, deletes>> /\ del.phase = "files"
    BY <1>2 DEF MeetingFilesystemDelete, meetingVars, rowVars
  <2>2. PICK broken \in Broken({del.meeting}, DeleteParts(del.targets)) :
          /\ CountFault(Faulty(broken))
          /\ del' = [del EXCEPT !.phase = "mark",
               !.freed = files[del.meeting] \ files'[del.meeting],
               !.quiet = @ /\ ~Faulty(broken),
               !.clean = IF "raw" \notin del.targets THEN {}
                         ELSE CleanWorkspaces({del.meeting}, [n \in Meeting |-> broken[n] \cap RawPart])]
    BY <1>2 DEF MeetingFilesystemDelete, RemoveDirs
  <2>3. Faulty(broken) => faults < MaxFaults
    BY <2>2, FaultyRemoval
  <2>4. faults' \in 0 .. MaxFaults
    BY <2>2, <2>3, CountedFault DEF Bounds
  <2>5. del # NoDelete /\ del \in Deletions
    BY <2>1, Shapes
  <2>6. del'.targets = del.targets
    BY <2>2, <2>5 DEF Deletions
  <2>7. QED
    BY <2>1, <2>4, <2>5, <2>6 DEF Bounds, Counts, Dates, RowsApart, Listed, Named
<1>3. CASE MeetingDatabaseDelete
  <2>1. /\ UNCHANGED <<day, stoppedAt, retries, deletes>>
        /\ del.phase \in {"mark", "transcripts", "summaries", "artifacts"}
        /\ del' = NoDelete \/ del' = [del EXCEPT !.phase = FollowingStatement[@]]
    BY <1>3 DEF MeetingDatabaseDelete, meetingVars
  <2>7. faults' \in 0 .. MaxFaults
    <3>1. PICK fails \in {FALSE} \cup (IF faults < MaxFaults THEN {TRUE} ELSE {}) : CountFault(fails)
      BY <1>3 DEF MeetingDatabaseDelete
    <3>2. fails => faults < MaxFaults
      BY <3>1
    <3>3. QED
      BY <3>1, <3>2, CountedFault DEF Bounds
  <2>8. Named'
    <3>1. del # NoDelete /\ del \in Deletions
      BY <2>1, Shapes
    <3>2. del' # NoDelete => del'.targets = del.targets
      BY <2>1, <3>1 DEF Deletions
    <3>3. QED
      BY <3>1, <3>2 DEF Bounds, Named
  <2>2. /\ live \in [Meeting -> SUBSET Nat] /\ dead \in [Meeting -> SUBSET Nat]
    BY DEF Types
  <2>3. \A n \in Meeting : live'[n] = {} \/ (live'[n] = live[n] /\ dead'[n] = dead[n])
    BY <1>3, <2>2 DEF MeetingDatabaseDelete
  <2>4. RowsApart'
    BY <2>3 DEF Bounds, RowsApart
  <2>5. Listed'
    <3>1. PICK fails \in {FALSE} \cup (IF faults < MaxFaults THEN {TRUE} ELSE {}) :
            artifacts' = [artifacts EXCEPT ![del.meeting] =
              {a \in artifacts[del.meeting] : ~(del.phase = "artifacts" /\ ~fails /\ Hit(del.meeting, a.kind))}]
      BY <1>3 DEF MeetingDatabaseDelete
    <3> DEFINE Kept == {a \in artifacts[del.meeting] :
                          ~(del.phase = "artifacts" /\ ~fails /\ Hit(del.meeting, a.kind))}
    <3>2. artifacts \in [Meeting -> SUBSET Artifact]
      BY DEF Bounds, Listed
    <3>3. del.meeting \in Meeting => Kept \in SUBSET Artifact
      BY <3>2
    <3>4. artifacts' = [artifacts EXCEPT ![del.meeting] = Kept]
      BY <3>1
    <3> HIDE DEF Kept
    <3>5. QED
      BY <3>2, <3>3, <3>4 DEF Listed
  <2>6. QED
    BY <2>1, <2>4, <2>5, <2>7, <2>8 DEF Bounds, Counts, Dates
<1>4. QED
  BY <1>1, <1>2, <1>3

LEMMA StepBounded ==
  ASSUME RetentionAssumption, Types, Bounds, [Next]_vars
  PROVE  Bounds'
<1>1. CASE UNCHANGED vars
  BY <1>1 DEF vars, meetingVars, rowVars, countVars, Bounds, Counts, Dates, RowsApart, Listed, Named
<1>2. CASE NextDay
  <2>1. CASE Meeting = {}
    <3>1. day < MaxDay /\ day' = day + 1 /\ UNCHANGED <<artifacts, del, faults, retries, deletes>>
      BY <1>2 DEF NextDay, rowVars, countVars
    <3>2. Dates'
      BY <2>1, <3>1 DEF Bounds, Dates, RetentionAssumption, BoundAssumption
    <3>3. QED
      BY <2>1, <3>1, <3>2 DEF Bounds, Counts, RowsApart, Listed, Named
  <2>2. CASE Meeting # {}
    BY <1>2, <2>2, MeetingsBounded
  <2>3. QED
    BY <2>1, <2>2
<1>3. CASE RunRetentionCleanup \/ AdminCleanupRun \/ FilesystemCleanup \/ MarkRawWorkspaceCleaned
  BY <1>3, RunsBounded
<1>4. CASE DatabaseCleanup
  BY <1>4, RowsBounded
<1>5. CASE MeetingFilesystemDelete \/ MeetingDatabaseDelete
  <2>1. del.phase # "idle"
    BY <1>5 DEF MeetingFilesystemDelete, MeetingDatabaseDelete
  <2>2. del.meeting \in Meeting
    BY <2>1, Shapes DEF Deletions
  <2>3. QED
    BY <1>5, <2>2, DeletionBounded
<1>6. ASSUME NEW m \in Meeting,
             MeetingDelete(m) \/ RetryInput(m) \/ RetryJob(m) \/ StopRecording(m) \/ ProcessMeeting(m)
      PROVE  Bounds'
  BY <1>6, DeletionBounded, MeetingsBounded
<1>7. QED
  BY <1>1, <1>2, <1>3, <1>4, <1>5, <1>6 DEF Next

(* The state keeps its type: the rows of a transcript are live or deleted,   *)
(* never both, no day lies beyond today, and no count beyond its bound.      *)
THEOREM TypeCorrect ==
  ASSUME RetentionAssumption
  PROVE  Spec => []TypeOK
<1>1. RetentionInv /\ Bounds => TypeOK
  <2>1. SUFFICES ASSUME Types, Bounds  PROVE TypeOK
    BY DEF RetentionInv
  <2>2. /\ day \in 1 .. MaxDay /\ status \in [Meeting -> Terminal \cup {"recording", "stopping"}]
        /\ \A m \in Meeting : /\ stoppedAt[m] \in 0 .. MaxDay /\ files[m] \subseteq Part
                              /\ artifacts[m] \subseteq Artifact /\ live[m] \cap dead[m] = {}
    BY <2>1 DEF Types, Bounds, Dates, RowsApart, Listed
  <2>3. run # NoRun => run.plan \in Plan
    BY <2>1, Shapes DEF Runs
  <2>4. del # NoDelete => del.targets \in (SUBSET Scope) \ {{}}
    BY <2>1, DeletionFields DEF Bounds, Named
  <2>5. QED
    BY <2>1, <2>2, <2>3, <2>4 DEF TypeOK, Bounds, Counts
<1>2. Init => Bounds
  BY InitBounds
<1>3. RetentionInv /\ Bounds /\ [Next]_vars => Bounds'
  BY StepBounded DEF RetentionInv
<1>4. QED
  BY <1>1, <1>2, <1>3, RetentionInvariant, PTL DEF Spec

(* A meeting that is recorded or processed loses no row, and no file but to  *)
(* the removal that was under way when a retry reopened it (the status in    *)
(* each of the RETENTION_... and ADMIN_RETENTION_... statements,             *)
(* ADMIN_RETRY_JOB_SQL).                                                     *)
THEOREM ActiveMeetingsKeepFiles ==
  ASSUME RetentionAssumption
  PROVE  Spec => ActiveKeepsFiles
<1>1. RetentionInv /\ Bounds /\ [Next]_vars => [ActiveKeepsFilesStep]_vars
  <2>1. ASSUME RetentionInv, [Next]_vars, NEW m \in Meeting, status[m] \notin Terminal, Loses(m)
        PROVE  Overtaken(m)
    <3>1. \/ FilesystemCleanup /\ run # NoRun /\ m \in run.plan[run.phase]
          \/ MeetingFilesystemDelete /\ del # NoDelete /\ m = del.meeting
      BY <2>1, OnlyRemovals DEF Loses
    <3>2. CASE FilesystemCleanup /\ run # NoRun /\ m \in run.plan[run.phase]
      <4>1. run.phase \in DOMAIN Following /\ run.phase \in Scope /\ run \in Runs
        BY <2>1, <3>2, RunFields DEF FilesystemCleanup, Following, Scope, RetentionInv
      <4>2. run'.phase = Following[run.phase]
        BY <3>2, <4>1 DEF FilesystemCleanup, Runs
      <4>3. m \in run.reopened
        BY <2>1, <3>2, <4>1 DEF RetentionInv, PlannedOver
      <4>4. QED
        BY <4>1, <4>2, <4>3 DEF Overtaken, CleansUp
    <3>3. CASE MeetingFilesystemDelete /\ del # NoDelete /\ m = del.meeting
      <4>1. del.phase = "files" /\ del \in Deletions
        BY <2>1, <3>3, DeletionFields DEF MeetingFilesystemDelete, RetentionInv
      <4>2. del'.phase = "mark"
        BY <3>3, <4>1 DEF MeetingFilesystemDelete, Deletions
      <4>3. m \in del.reopened
        BY <2>1, <3>3 DEF RetentionInv, PlannedOver
      <4>4. QED
        BY <4>1, <4>2, <4>3 DEF Overtaken
    <3>4. QED
      BY <3>1, <3>2, <3>3
  <2>2. QED
    BY <2>1, OnlyOverLoseRows DEF ActiveKeepsFilesStep, Bounds
<1>2. Init => Bounds
  BY InitBounds
<1>3. RetentionInv /\ Bounds /\ [Next]_vars => Bounds'
  BY StepBounded DEF RetentionInv
<1>4. QED
  BY <1>1, <1>2, <1>3, RetentionInvariant, PTL DEF Spec, ActiveKeepsFiles

(***************************************************************************)
(* What a reader of the runs and the previews may rely on.                 *)
(***************************************************************************)

(* What is marked as cleaned is gone, a title has its summary, and an        *)
(* undisturbed run or deletion frees exactly what was announced, for any     *)
(* number of meetings, all lifetimes and whatever fails.                     *)
THEOREM RetentionIsExact ==
  ASSUME RetentionAssumption
  PROVE  Spec => []RetentionExact
BY TypeCorrect, CleanedIsGone, TitlesNeedSummaries, PreviewsAreExact, PTL DEF RetentionExact

(* Of a meeting that is being worked on no row is removed, and no file but   *)
(* by a removal under way when it was reopened; and nothing by the bot       *)
(* before its lifetime is over.                                              *)
THEOREM NothingGoesEarly ==
  ASSUME RetentionAssumption
  PROVE  Spec => NothingRemovedEarly
BY ActiveMeetingsKeepFiles, LifetimesAreKept DEF NothingRemovedEarly
=============================================================================
