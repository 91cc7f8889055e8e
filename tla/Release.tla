------------------------------ MODULE Release ------------------------------
(***************************************************************************)
(* How a commit becomes a deployable release: release-gates.mjs polls the  *)
(* workflow runs of the commit until each required check has succeeded and *)
(* writes the evidence to a file; release-manifest.mjs embeds a file of    *)
(* that kind in a manifest and validates it.  Workflows start, finish and  *)
(* are run again while the poll reads them, one request at a time.         *)
(***************************************************************************)
EXTENDS Naturals, FiniteSets, FiniteSetsExt

CONSTANTS
  Commit,         \* source commits
  Main,           \* those reachable from the release branch
  Workflow,       \* workflow files
  Check,          \* REQUIRED_GATES: job names
  WorkflowOf,     \* the workflow each required job belongs to
  MaxRun,         \* bound: workflow runs
  MaxReruns,      \* bound: runs started again
  None

RunId == 1..MaxRun
Job == {"absent", "running", "success", "failure"}

VARIABLES
  runs,           \* GitHub's workflow runs, by id
  reruns,         \* how many runs were started again
  green,          \* the <<commit, check>> that ever succeeded
  verify,         \* verify[c]: the release-gates execution for commit c
  files,          \* the evidence files written
  manifest        \* the manifest generated last; it is valid

vars == <<runs, reruns, green, verify, files, manifest>>

Run == [sha : Commit, workflow : Workflow, completed : BOOLEAN, jobs : [Check -> Job]]
Idle == [step |-> "idle", listed |-> {}, unread |-> {}, jobs |-> [r \in RunId |-> None]]

Gate == [check : Check, headSha : Commit]
Evidence == [headSha : Commit, required : SUBSET Gate]
Manifest == [type : {"published", "rehearsal"}, provenance : {"commit", "working-tree"},
             commit : Commit, gates : Evidence \cup {None}]

TypeOK ==
  /\ runs \in [RunId -> Run \cup {None}] /\ reruns \in 0..MaxReruns
  /\ green \subseteq Commit \X Check
  /\ \A c \in Commit : /\ verify[c].step \in {"idle", "list", "jobs", "done"}
                       /\ verify[c].unread \subseteq RunId
  /\ files \subseteq Evidence /\ manifest \in Manifest \cup {None}

Init ==
  /\ runs = [r \in RunId |-> None] /\ reruns = 0 /\ green = {}
  /\ verify = [c \in Commit |-> Idle]
  /\ files = {} /\ manifest = None

-----------------------------------------------------------------------------
(* GitHub Actions.  Run ids only grow; a run again keeps its id and loses  *)
(* its jobs' answers.  A cancelled run completes without some of its jobs. *)

Pending(r) == runs[r] # None /\ ~runs[r].completed
Active == <<verify, files, manifest>>

StartRun(c, w) ==
  /\ \E r \in RunId :
       /\ runs[r] = None /\ \A q \in 1..r - 1 : runs[q] # None
       /\ runs' = [runs EXCEPT ![r] = [sha |-> c, workflow |-> w, completed |-> FALSE,
                                       jobs |-> [k \in Check |-> "absent"]]]
  /\ UNCHANGED <<reruns, green, Active>>

StartJob(r, k) ==
  /\ Pending(r) /\ WorkflowOf[k] = runs[r].workflow /\ runs[r].jobs[k] = "absent"
  /\ runs' = [runs EXCEPT ![r].jobs[k] = "running"]
  /\ UNCHANGED <<reruns, green, Active>>

EndJob(r, k, conclusion) ==
  /\ Pending(r) /\ runs[r].jobs[k] = "running"
  /\ runs' = [runs EXCEPT ![r].jobs[k] = conclusion]
  /\ green' = IF conclusion = "success" THEN green \cup {<<runs[r].sha, k>>} ELSE green
  /\ UNCHANGED <<reruns, Active>>

CompleteRun(r) ==
  /\ Pending(r) /\ \A k \in Check : runs[r].jobs[k] # "running"
  /\ runs' = [runs EXCEPT ![r].completed = TRUE]
  /\ UNCHANGED <<reruns, green, Active>>

RunAgain(r) ==
  /\ runs[r] # None /\ runs[r].completed /\ reruns < MaxReruns
  /\ runs' = [runs EXCEPT ![r].completed = FALSE, ![r].jobs = [k \in Check |-> "absent"]]
  /\ reruns' = reruns + 1
  /\ UNCHANGED <<green, Active>>

-----------------------------------------------------------------------------
(* release-gates.mjs verify                                                *)

(* The commit must be on the release branch before anything is polled.     *)
StartVerify(c) ==
  /\ verify[c].step = "idle" /\ c \in Main
  /\ verify' = [verify EXCEPT ![c].step = "list"]
  /\ UNCHANGED <<runs, reruns, green, files, manifest>>

(* collectRunsAndJobs: the runs of the commit in one request, then the     *)
(* jobs of each run that was completed when it was listed.                 *)
ListRuns(c) ==
  /\ verify[c].step = "list"
  /\ LET mine == {r \in RunId : runs[r] # None /\ runs[r].sha = c}
     IN verify' = [verify EXCEPT ![c] = [step |-> "jobs", listed |-> mine,
                     unread |-> {r \in mine : runs[r].completed},
                     jobs |-> [r \in RunId |-> None]]]
  /\ UNCHANGED <<runs, reruns, green, files, manifest>>

ReadJobs(c, r) ==
  /\ verify[c].step = "jobs" /\ r \in verify[c].unread
  /\ verify' = [verify EXCEPT ![c].unread = @ \ {r}, ![c].jobs[r] = runs[r].jobs]
  /\ UNCHANGED <<runs, reruns, green, files, manifest>>

(* evaluateGate: the newest run of the check's workflow decides; a run not *)
(* found, not completed or with the job still running leaves it pending.   *)
Candidates(v, k) == {r \in v.listed : runs[r].workflow = WorkflowOf[k]}

GateState(v, k) ==
  IF Candidates(v, k) = {} THEN "pending"
  ELSE LET run == Max(Candidates(v, k))
       IN IF v.jobs[run] = None \/ v.jobs[run][k] = "running" THEN "pending"
          ELSE IF v.jobs[run][k] = "success" THEN "satisfied" ELSE "failed"

(* A bug: a run that is not found yet holds nothing against the commit.    *)
Satisfied_UnlessFailed(v) == \A k \in Check : GateState(v, k) # "failed"

Satisfied(v) == \A k \in Check : GateState(v, k) = "satisfied"
Failed(v) == \E k \in Check : GateState(v, k) = "failed"
Read(c) == verify[c].step = "jobs" /\ verify[c].unread = {}

WriteEvidence(c) ==
  /\ Read(c) /\ Satisfied(verify[c])
  /\ files' = files \cup {[headSha |-> c, required |-> {[check |-> k, headSha |-> c] : k \in Check}]}
  /\ verify' = [verify EXCEPT ![c] = [Idle EXCEPT !.step = "done"]]
  /\ UNCHANGED <<runs, reruns, green, manifest>>

PollAgain(c) ==
  /\ Read(c) /\ ~Satisfied(verify[c]) /\ ~Failed(verify[c])
  /\ verify' = [verify EXCEPT ![c] = [Idle EXCEPT !.step = "list"]]
  /\ UNCHANGED <<runs, reruns, green, files, manifest>>

(* A check failed, or the deadline passed with one still pending: the      *)
(* workflow ends, and may be dispatched again.                             *)
Refuse(c) ==
  /\ Read(c) /\ ~Satisfied(verify[c])
  /\ verify' = [verify EXCEPT ![c] = Idle]
  /\ UNCHANGED <<runs, reruns, green, files, manifest>>

-----------------------------------------------------------------------------
(* release-manifest.mjs generate                                           *)

Deployable(m) == m.type = "published"

(* A bug: any evidence authorises any commit.                              *)
Authorised_AnyCommit(m) ==
  /\ m.gates # None
  /\ Check \subseteq {g.check : g \in m.gates.required}

(* validateGates.                                                          *)
Authorised(m) ==
  /\ m.gates # None
  /\ m.gates.headSha = m.commit
  /\ \A g \in m.gates.required : g.headSha = m.commit
  /\ Check \subseteq {g.check : g \in m.gates.required}

Valid(m) ==
  /\ m.type = "published" => m.provenance = "commit" /\ Authorised(m)
  /\ m.type = "rehearsal" => m.gates = None

(* The evidence comes from a file, and no flag stands in for one.  The     *)
(* commit is a flag: nothing but validation ties it to the evidence.       *)
Generate(m) ==
  /\ m.gates = None \/ (m.type = "published" /\ m.gates \in files)
  /\ Valid(m)
  /\ manifest' = m
  /\ UNCHANGED <<runs, reruns, green, verify, files>>

Requests == {[type |-> t, provenance |-> p, commit |-> c, gates |-> g] :
               t \in {"published", "rehearsal"}, p \in {"commit", "working-tree"},
               c \in Commit, g \in files \cup {None}}

Next ==
  \/ \E c \in Commit :
       \/ \E w \in Workflow : StartRun(c, w)
       \/ StartVerify(c) \/ ListRuns(c) \/ (\E r \in RunId : ReadJobs(c, r))
       \/ WriteEvidence(c) \/ PollAgain(c) \/ Refuse(c)
  \/ \E r \in RunId :
       \/ \E k \in Check : StartJob(r, k) \/ EndJob(r, k, "success") \/ EndJob(r, k, "failure")
       \/ CompleteRun(r) \/ RunAgain(r)
  \/ \E m \in Requests : Generate(m)

Spec == Init /\ [][Next]_vars

-----------------------------------------------------------------------------
(* A manifest that says it is deployable is of a commit on the release     *)
(* branch for which every required check did succeed, whatever runs were   *)
(* started again or superseded while the gates were polled and whatever    *)
(* evidence file was passed (release-gates.mjs; validateGates).            *)
DeployableIsProven ==
  (manifest # None /\ Deployable(manifest)) =>
    /\ manifest.commit \in Main /\ manifest.provenance = "commit"
    /\ \A k \in Check : <<manifest.commit, k>> \in green
=============================================================================
