------------------------------ MODULE Resources ------------------------------
(***************************************************************************)
(* Projects and API keys of one organization, next to changes of its plan. *)
(* A creation counts and inserts in one transaction under the advisory     *)
(* lock of its kind, with the plan row locked FOR SHARE; a change of plan  *)
(* takes the plan row FOR UPDATE; a rename, a deletion and a revocation    *)
(* take the row of the resource.                                           *)
(*                                                                         *)
(* Which locks a transaction has follows from the step it has reached, so  *)
(* no variable repeats it.                                                 *)
(***************************************************************************)
EXTENDS Naturals, FiniteSets

CONSTANTS
    Request, Project, Key,
    Plan,
    MaxProjects, MaxKeys, \* the ceilings of a plan
    KeyPlans,     \* the plans that grant api_keys_access
    FirstPlan,    \* the plan at the start
    MaxTime,      \* bound on the clock
    None

VARIABLES
    plan,   \* organization_plans.plan_key
    rows,   \* projects and api_keys
    now,    \* the clock
    pc, req

vars == <<plan, rows, now, pc, req>>

Time  == 0 .. MaxTime
Never == MaxTime + 1   \* expires_at IS NULL
Kind  == {"projects", "api_keys"}
Ids   == [projects |-> Project, api_keys |-> Key]
Row   == [state   : {"absent", "live", "ended"},  \* deleted_at, revoked_at
          by      : Request \cup {None},          \* whose write it carries
          expires : Time \cup {Never}]
NoRow == [state |-> "absent", by |-> None, expires |-> Never]

\* read: the clock when the handler read it, for a key; plan: what FOR SHARE returned.
Params ==
    [op : {"create"}, kind : Kind, expires : Time \cup {Never}, read : Time,
     plan : Plan \cup {None}]
      \cup [op : {"rename", "delete"}, id : Project]
      \cup [op : {"revoke"}, id : Key]
      \cup [op : {"plan"}, plan : Plan]
NoParams == [op |-> "none"]

TypeOK ==
    /\ plan \in Plan
    /\ rows \in [Project \cup Key -> Row]
    /\ now \in Time
    /\ pc \in [Request -> {"idle", "begun", "queued", "planned", "counted", "locked"}]
    /\ req \in [Request -> Params \cup {NoParams}]

Init ==
    /\ plan = FirstPlan
    /\ rows = [x \in Project \cup Key |-> NoRow]
    /\ now  = 0
    /\ pc   = [r \in Request |-> "idle"]
    /\ req  = [r \in Request |-> NoParams]

-----------------------------------------------------------------------------
Goto(r, step) == pc' = [pc EXCEPT ![r] = step]

\* Commit or rollback.
Finish(r) ==
    /\ pc'  = [pc EXCEPT ![r] = "idle"]
    /\ req' = [req EXCEPT ![r] = NoParams]

Start(r, p) ==
    /\ pc[r] = "idle"
    /\ pc'  = [pc EXCEPT ![r] = "begun"]
    /\ req' = [req EXCEPT ![r] = p]

Creates(r, kind) == req[r].op = "create" /\ req[r].kind = kind

\* acquireOrganizationQuotaLock is granted to r.
HoldsQuota(r, kind) == Creates(r, kind) /\ pc[r] \in {"queued", "planned", "counted"}
SharesPlan(r) == pc[r] \in {"planned", "counted"}
HoldsPlan(r)  == req[r].op = "plan" /\ pc[r] = "locked"
HoldsRow(r, x) == pc[r] = "locked" /\ req[r].op \in {"rename", "delete", "revoke"} /\ req[r].id = x

Limit(p, kind) == IF kind = "projects" THEN MaxProjects[p] ELSE MaxKeys[p]

\* What counts against the quota at time t: neither ended nor expired.
ActiveAt(kind, t) ==
    {x \in Ids[kind] : rows[x].state = "live" /\ rows[x].expires > t}

\* The handlers, up to their transactions: the actor may do it, the mutation
\* limit is not reached, and for keys the plan grants them right now.
RequestProject(r) ==
    /\ Start(r, [op |-> "create", kind |-> "projects", expires |-> Never,
                 read |-> 0, plan |-> None])
    /\ UNCHANGED <<plan, rows, now>>

\* The route refuses an expires_at that is not in the future.
RequestKey(r) ==
    /\ plan \in KeyPlans
    /\ \E e \in {t \in Time : t > now} \cup {Never} :
          Start(r, [op |-> "create", kind |-> "api_keys", expires |-> e,
                    read |-> now, plan |-> None])
    /\ UNCHANGED <<plan, rows, now>>

EditProject(r) ==
    /\ \E x \in Project, o \in {"rename", "delete"} : Start(r, [op |-> o, id |-> x])
    /\ UNCHANGED <<plan, rows, now>>

RequestRevoke(r) ==
    /\ plan \in KeyPlans
    /\ \E x \in Key : Start(r, [op |-> "revoke", id |-> x])
    /\ UNCHANGED <<plan, rows, now>>

RequestPlan(r) ==
    /\ \E p \in Plan : Start(r, [op |-> "plan", plan |-> p])
    /\ UNCHANGED <<plan, rows, now>>

-----------------------------------------------------------------------------
\* Mutant: the count is not serialized.
LockQuota_None(r) ==
    /\ pc[r] = "begun" /\ req[r].op = "create"
    /\ Goto(r, "queued")
    /\ UNCHANGED <<plan, rows, now, req>>

LockQuota(r) ==
    /\ pc[r] = "begun" /\ req[r].op = "create"
    /\ \A q \in Request : ~HoldsQuota(q, req[r].kind)
    /\ Goto(r, "queued")
    /\ UNCHANGED <<plan, rows, now, req>>

\* lockOrganizationEntitlements, and requireEntitlement for a key.
ReadPlan(r) ==
    /\ pc[r] = "queued"
    /\ \A q \in Request : ~HoldsPlan(q)
    /\ IF req[r].kind = "api_keys" /\ plan \notin KeyPlans
       THEN Finish(r)
       ELSE /\ Goto(r, "planned")
            /\ req' = [req EXCEPT ![r].plan = plan]
    /\ UNCHANGED <<plan, rows, now>>

\* The count uses the clock the handler read, not the clock of the count.
Count(r) ==
    /\ pc[r] = "planned"
    /\ IF Cardinality(ActiveAt(req[r].kind, req[r].read))
             >= Limit(req[r].plan, req[r].kind)
       THEN Finish(r)
       ELSE Goto(r, "counted") /\ UNCHANGED req
    /\ UNCHANGED <<plan, rows, now>>

\* The insert becomes visible with the commit.
CommitCreate(r) ==
    /\ pc[r] = "counted"
    /\ \E x \in Ids[req[r].kind] :
          /\ rows[x].state = "absent"
          /\ rows' = [rows EXCEPT ![x] = [state |-> "live", by |-> r,
                                          expires |-> req[r].expires]]
    /\ Finish(r)
    /\ UNCHANGED <<plan, now>>

\* Mutant: the row is read without FOR UPDATE.
LockRow_Read(r) ==
    /\ pc[r] = "begun" /\ req[r].op \in {"rename", "delete", "revoke"}
    /\ IF rows[req[r].id].state = "live"
       THEN Goto(r, "locked") /\ UNCHANGED req
       ELSE Finish(r)
    /\ UNCHANGED <<plan, rows, now>>

\* A transaction that waited for the row finds the version that was committed:
\* a project that is gone is not found, a key that is revoked is left alone.
LockRow(r) ==
    /\ pc[r] = "begun" /\ req[r].op \in {"rename", "delete", "revoke"}
    /\ \A q \in Request : ~HoldsRow(q, req[r].id)
    /\ IF rows[req[r].id].state = "live"
       THEN Goto(r, "locked") /\ UNCHANGED req
       ELSE Finish(r)
    /\ UNCHANGED <<plan, rows, now>>

CommitRow(r) ==
    /\ pc[r] = "locked" /\ req[r].op # "plan"
    /\ rows' = [rows EXCEPT ![req[r].id].by = r,
                            ![req[r].id].state = IF req[r].op = "rename" THEN @ ELSE "ended"]
    /\ Finish(r)
    /\ UNCHANGED <<plan, now>>

LockPlan(r) ==
    /\ pc[r] = "begun" /\ req[r].op = "plan"
    /\ \A q \in Request : ~SharesPlan(q) /\ ~HoldsPlan(q)
    /\ Goto(r, "locked")
    /\ UNCHANGED <<plan, rows, now, req>>

CommitPlan(r) ==
    /\ pc[r] = "locked" /\ req[r].op = "plan"
    /\ plan' = req[r].plan
    /\ Finish(r)
    /\ UNCHANGED <<rows, now>>

Fail(r) ==
    /\ pc[r] # "idle"
    /\ Finish(r)
    /\ UNCHANGED <<plan, rows, now>>

Tick ==
    /\ now < MaxTime
    /\ now' = now + 1
    /\ UNCHANGED <<plan, rows, pc, req>>

Next ==
    \/ Tick
    \/ \E r \in Request :
          \/ RequestProject(r) \/ RequestKey(r) \/ EditProject(r)
          \/ RequestRevoke(r) \/ RequestPlan(r)
          \/ LockQuota(r) \/ ReadPlan(r) \/ Count(r) \/ CommitCreate(r)
          \/ LockRow(r) \/ CommitRow(r) \/ LockPlan(r) \/ CommitPlan(r)
          \/ Fail(r)

Spec == Init /\ [][Next]_vars

-----------------------------------------------------------------------------
\* Creations that race each other, a change of plan, a revocation or the clock
\* are each a single step of QuotaPolicy: the count, the ceiling and the insert
\* agree with the plan in force at the commit (project.repo.ts createProject,
\* api-key.repo.ts createApiKey).
Quota == INSTANCE QuotaPolicy WITH
    Id      <- Project \cup Key,
    Ceiling <- [p \in Plan |->
                  [projects |-> MaxProjects[p],
                   api_keys |-> IF p \in KeyPlans THEN MaxKeys[p] ELSE 0]],
    active  <- [k \in Kind |-> ActiveAt(k, now)]
ImplementsQuota == Quota!Spec

\* What was deleted or revoked is never written again: one request ends it,
\* and a second deletion or a rename that waited for the row does
\* nothing (softDeleteProject, updateProject, revokeApiKey).
KeepsEnded == \A x \in Project \cup Key : rows[x].state = "ended" => rows'[x] = rows[x]
EndedIsFinal == [][KeepsEnded]_rows
=============================================================================
