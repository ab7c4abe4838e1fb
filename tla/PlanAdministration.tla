------------------------- MODULE PlanAdministration -------------------------
(***************************************************************************)
(* The administrators' API for plans, quotas and the plan of a guild.      *)
(* Every change is a request of its own that loads the row, writes an      *)
(* audit event, changes the row in one statement and writes a second       *)
(* event, with other requests in between.  There is one guild with its     *)
(* tenant.  Names and limits of plans are left out; a plan has a code and  *)
(* a status, a quota its plan and its dimension, and an assignment the     *)
(* half-open interval of time in which it applies.                         *)
(***************************************************************************)
EXTENDS Naturals, FiniteSets

CONSTANTS
  Plan, Quota, Dimension, Assignment, Request,
  Code,        \* codes of plans; "default" is the one of the fallback
  None,
  MaxTime,     \* bound on time
  DayLength,   \* date_trunc('day', ...)
  Operations,  \* the operations requests ask for
  MaxRequests, \* bound on requests
  MaxFaults    \* bound on failed statements

NoneAssumption == None \notin Plan \cup Quota \cup Assignment
CodeAssumption == "default" \in Code
BoundAssumption ==
  {MaxTime, DayLength} \subseteq Nat \ {0} /\ {MaxRequests, MaxFaults} \subseteq Nat

VARIABLES
  now,
  plans,       \* rows of plans
  quotas,      \* rows of plan_quotas
  assignments, \* rows of guild_plan_assignments
  anchor,      \* period_anchor of the tenant
  audit,       \* audit_events: requests that were announced
  req,
  asked, faults

vars == <<now, plans, quotas, assignments, anchor, audit, req, asked, faults>>
rows == <<plans, quotas, assignments, anchor>>

Forever == MaxTime + 1
Time == 1 .. MaxTime
NoPlan == [status |-> "none", code |-> "default"]
NoQuota == [plan |-> None, dimension |-> None]
NoAssignment == [status |-> "none", plan |-> None, from |-> 0, until |-> 0, anchor |-> 0]
Idle == [pc |-> "idle", op |-> "none", id |-> None, row |-> None]

(* The default plan is there from the migrations.                          *)
Init ==
  /\ now = 1
  /\ \E d \in Plan : plans = [p \in Plan |-> IF p = d THEN [status |-> "active", code |-> "default"]
                                             ELSE NoPlan]
  /\ quotas = [q \in Quota |-> NoQuota]
  /\ assignments = [a \in Assignment |-> NoAssignment]
  /\ anchor = 0 /\ audit = {}
  /\ req = [r \in Request |-> Idle]
  /\ asked = 0 /\ faults = 0

-----------------------------------------------------------------------------
(* Constraints of the tables.                                              *)

Overlap(a, b) == a.from < b.until /\ b.from < a.until

NoActiveOverlap(as) ==
  \A x, y \in Assignment :
    x # y /\ as[x].status = "active" /\ as[y].status = "active" => ~Overlap(as[x], as[y])

UniqueCode(ps) ==
  \A x, y \in Plan : x # y /\ "none" \notin {ps[x].status, ps[y].status} => ps[x].code # ps[y].code

UniqueDimension(qs) ==
  \A x, y \in Quota : x # y /\ None \notin {qs[x].plan, qs[y].plan} => qs[x] # qs[y]

-----------------------------------------------------------------------------
(* The plan of the guild at a time: that of its assignment, also when the  *)
(* plan has been archived since, or else the active default plan.          *)

Applies(a, t) == a.status = "active" /\ a.from <= t /\ t < a.until

PlanIsUsable(p) == plans[p].status \in {"active", "archived"}

AssignedAt(t) == {a \in Assignment : Applies(assignments[a], t) /\ PlanIsUsable(assignments[a].plan)}

ResolvePlanForGuild(t) ==
  IF AssignedAt(t) # {}
  THEN assignments[CHOOSE a \in AssignedAt(t) :
                     \A b \in AssignedAt(t) : assignments[b].from <= assignments[a].from].plan
  ELSE IF \E p \in Plan : plans[p] = [status |-> "active", code |-> "default"]
       THEN CHOOSE p \in Plan : plans[p] = [status |-> "active", code |-> "default"]
       ELSE None

-----------------------------------------------------------------------------
(* Requests: what is asked for, once it has been validated.                *)

Ask(r, pc, op, id, row) ==
  /\ req[r] = Idle /\ asked < MaxRequests /\ op \in Operations
  /\ req' = [req EXCEPT ![r] = [pc |-> pc, op |-> op, id |-> id, row |-> row]]
  /\ asked' = asked + 1
  /\ UNCHANGED <<now, rows, audit, faults>>

NormalizeAdminPlan(default) == [status : {default, "active", "archived"}, code : Code]

ApiAdminCreatePlan(r) ==
  \E p \in Plan, row \in NormalizeAdminPlan("active") : Ask(r, "audit", "plan.create", p, row)

ApiAdminUpdatePlan(r) ==
  \E p \in Plan, row \in NormalizeAdminPlan("") : Ask(r, "audit", "plan.update", p, row)

ApiAdminArchivePlan(r) == \E p \in Plan : Ask(r, "load", "plan.archive", p, NoPlan)

NormalizeAdminPlanQuota(p) == [plan : {p}, dimension : Dimension]

ApiAdminCreatePlanQuota(r) ==
  \E q \in Quota, p \in Plan : \E row \in NormalizeAdminPlanQuota(p) :
    Ask(r, "audit", "quota.create", q, row)

ApiAdminUpdatePlanQuota(r) ==
  \E q \in Quota : \E row \in NormalizeAdminPlanQuota(None) : Ask(r, "load", "quota.update", q, row)

ApiAdminDeletePlanQuota(r) == \E q \in Quota : Ask(r, "load", "quota.delete", q, NoQuota)

(* valid_until, if there is one, is after valid_from.                      *)
NormalizeAdminGuildPlanAssignment ==
  {[status |-> "active", plan |-> p, from |-> f, until |-> u, anchor |-> 0] :
     p \in Plan, f \in Time, u \in Time \cup {Forever}}

ApiAdminCreateGuildPlanAssignment(r) ==
  \E a \in Assignment : \E row \in NormalizeAdminGuildPlanAssignment :
    row.from < row.until /\ Ask(r, "audit", "assignment.create", a, row)

ApiAdminUpdateGuildPlanAssignment(r) ==
  \E a \in Assignment : \E row \in NormalizeAdminGuildPlanAssignment :
    row.from < row.until /\ Ask(r, "load", "assignment.update", a, row)

ApiAdminArchiveGuildPlanAssignment(r) ==
  \E a \in Assignment : Ask(r, "load", "assignment.archive", a, NoAssignment)

-----------------------------------------------------------------------------
(* The steps of a request.                                                 *)

Finish(r) == req' = [req EXCEPT ![r] = Idle]

Exists(op, id) ==
  \/ op = "plan.archive" /\ plans[id].status # "none"
  \/ op \in {"quota.update", "quota.delete"} /\ quotas[id].plan # None
  \/ op \in {"assignment.update", "assignment.archive"} /\ assignments[id].status # "none"

LoadExisting(r) ==
  /\ req[r].pc = "load"
  /\ IF Exists(req[r].op, req[r].id) THEN req' = [req EXCEPT ![r].pc = "audit"] ELSE Finish(r)
  /\ UNCHANGED <<now, rows, audit, asked, faults>>

(* Mutant: a change goes on without its audit event.                       *)
MutRequireAuditEvent(r) ==
  /\ req[r].pc = "audit"
  /\ req' = [req EXCEPT ![r].pc = "change"]
  /\ \/ audit' = audit \cup {<<req[r].op, req[r].id>>} /\ UNCHANGED faults
     \/ faults < MaxFaults /\ faults' = faults + 1 /\ UNCHANGED audit
  /\ UNCHANGED <<now, rows, asked>>

RequireAuditEvent(r) ==
  /\ req[r].pc = "audit"
  /\ \/ /\ audit' = audit \cup {<<req[r].op, req[r].id>>}
        /\ req' = [req EXCEPT ![r].pc = "change"]
        /\ UNCHANGED faults
     \/ /\ faults < MaxFaults /\ faults' = faults + 1
        /\ Finish(r)
        /\ UNCHANGED audit
  /\ UNCHANGED <<now, rows, asked>>

(* What a statement leaves in the table: the same rows when it finds none  *)
(* or a constraint refuses the change.                                     *)
Checked(new, old, constraint) == IF constraint THEN new ELSE old

InsertAdminPlan(p, row) ==
  LET new == [plans EXCEPT ![p] = row] IN
  Checked(new, plans, plans[p].status = "none" /\ UniqueCode(new))

UpdateAdminPlan(p, row) ==
  LET new == [plans EXCEPT ![p] = [row EXCEPT !.status = IF row.status = "" THEN plans[p].status
                                                         ELSE row.status]] IN
  Checked(new, plans, plans[p].status # "none" /\ UniqueCode(new))

ArchiveAdminPlan(p) ==
  Checked([plans EXCEPT ![p].status = "archived"], plans, plans[p].status # "none")

InsertAdminPlanQuota(q, row) ==
  LET new == [quotas EXCEPT ![q] = row] IN
  Checked(new, quotas, plans[row.plan].status # "none" /\ quotas[q].plan = None
                       /\ UniqueDimension(new))

UpdateAdminPlanQuota(q, row) ==
  LET new == [quotas EXCEPT ![q].dimension = row.dimension] IN
  Checked(new, quotas, quotas[q].plan # None /\ UniqueDimension(new))

DeleteAdminPlanQuota(q) == [quotas EXCEPT ![q] = NoQuota]

Day(t) == (t \div DayLength) * DayLength + 1

TenantPeriod(row) == IF anchor = 0 THEN Day(row.from) ELSE anchor

(* The tenant's period starts with its first assignment.                   *)
CanAssign(a, row) ==
  /\ plans[row.plan].status = "active" /\ assignments[a].status = "none"
  /\ NoActiveOverlap([assignments EXCEPT ![a] = row])

InsertAdminGuildPlanAssignment(a, row) ==
  IF CanAssign(a, row)
  THEN /\ anchor' = TenantPeriod(row)
       /\ assignments' = [assignments EXCEPT ![a] = [row EXCEPT !.anchor = TenantPeriod(row)]]
  ELSE UNCHANGED <<anchor, assignments>>

IsCurrent(a) == a.status = "active"

UpdateAdminGuildPlanAssignment(a, row) ==
  LET new == [assignments EXCEPT ![a] = [row EXCEPT !.anchor = assignments[a].anchor]] IN
  Checked(new, assignments,
          IsCurrent(assignments[a]) /\ plans[row.plan].status = "active" /\ NoActiveOverlap(new))

(* An open-ended one that has begun ends now, if that is later than it     *)
(* began.                                                                  *)
ArchiveAdminGuildPlanAssignment(a) ==
  LET old == assignments[a]
      ends == old.status = "active" /\ old.from <= now /\ old.until = Forever IN
  Checked([assignments EXCEPT ![a] = [old EXCEPT !.status = "revoked",
                                                 !.until = IF ends THEN now ELSE @]],
          assignments, old.status # "none" /\ (ends => old.from < now))

Change(op, id, row) ==
  /\ plans' = CASE op = "plan.create" -> InsertAdminPlan(id, row)
                [] op = "plan.update" -> UpdateAdminPlan(id, row)
                [] op = "plan.archive" -> ArchiveAdminPlan(id)
                [] OTHER -> plans
  /\ quotas' = CASE op = "quota.create" -> InsertAdminPlanQuota(id, row)
                 [] op = "quota.update" -> UpdateAdminPlanQuota(id, row)
                 [] op = "quota.delete" -> DeleteAdminPlanQuota(id)
                 [] OTHER -> quotas
  /\ IF op = "assignment.create" THEN InsertAdminGuildPlanAssignment(id, row)
     ELSE /\ assignments' = CASE op = "assignment.update" -> UpdateAdminGuildPlanAssignment(id, row)
                              [] op = "assignment.archive" -> ArchiveAdminGuildPlanAssignment(id)
                              [] OTHER -> assignments
          /\ UNCHANGED anchor

(* The statement, and the second event, whose loss changes nothing.        *)
Execute(r) ==
  /\ req[r].pc = "change"
  /\ \/ Change(req[r].op, req[r].id, req[r].row) /\ UNCHANGED faults
     \/ faults < MaxFaults /\ faults' = faults + 1 /\ UNCHANGED rows
  /\ Finish(r)
  /\ UNCHANGED <<now, audit, asked>>

Tick == now < MaxTime /\ now' = now + 1 /\ UNCHANGED <<rows, audit, req, asked, faults>>

Next ==
  \/ \E r \in Request :
       \/ ApiAdminCreatePlan(r) \/ ApiAdminUpdatePlan(r) \/ ApiAdminArchivePlan(r)
       \/ ApiAdminCreatePlanQuota(r) \/ ApiAdminUpdatePlanQuota(r) \/ ApiAdminDeletePlanQuota(r)
       \/ ApiAdminCreateGuildPlanAssignment(r) \/ ApiAdminUpdateGuildPlanAssignment(r)
       \/ ApiAdminArchiveGuildPlanAssignment(r)
       \/ LoadExisting(r) \/ RequireAuditEvent(r) \/ Execute(r)
  \/ Tick

Spec == Init /\ [][Next]_vars

-----------------------------------------------------------------------------
(* The assignments that apply to the guild at any time are at most one, so *)
(* the plan that is resolved does not depend on the order of the rows,     *)
(* whatever requests raced.                                                *)
ResolutionDeterminate == \A t \in Time : Cardinality(AssignedAt(t)) <= 1

(* Archiving a plan never takes it away from a guild it is assigned to:    *)
(* what the guild resolves to changes only with its assignments.           *)
ArchivedPlanKeptStep ==
  assignments' = assignments =>
    \A t \in Time : AssignedAt(t) # {} => ResolvePlanForGuild(t)' = ResolvePlanForGuild(t)

ArchivedPlanKept == [][ArchivedPlanKeptStep]_vars

(* All assignments of the tenant have the period anchor that its first one *)
(* set, and none moves it.                                                 *)
AnchorShared ==
  \A a \in Assignment : assignments[a].status # "none" => assignments[a].anchor = anchor

(* A revoked assignment stays as it is: an update that was validated and   *)
(* announced before the revocation finds nothing to change.                *)
RevokedFinalStep ==
  \A a \in Assignment :
    assignments[a].status = "revoked" => assignments'[a] = assignments[a]

RevokedFinal == [][RevokedFinalStep]_vars

(* Nothing changes that was not announced in the audit log before: when    *)
(* the event cannot be written the change is not made.                     *)
AuditedFirstStep ==
  /\ \A p \in Plan : plans'[p] # plans[p] => \E e \in audit : e[2] = p
  /\ \A q \in Quota : quotas'[q] # quotas[q] => \E e \in audit : e[2] = q
  /\ \A a \in Assignment : assignments'[a] # assignments[a] => \E e \in audit : e[2] = a

AuditedFirst == [][AuditedFirstStep]_vars
=============================================================================
