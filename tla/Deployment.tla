----------------------------- MODULE Deployment -----------------------------
(***************************************************************************)
(* deploy.sh and deploy-rollback.sh on one host: the preflights, the       *)
(* migration, the head verification, the containers, the smoke test, and   *)
(* the evidence ledger that a later rollback resolves its target from.     *)
(*                                                                         *)
(* A release is its manifest: two image digests and the number of its      *)
(* migrations.  Runtime configuration, registry and platform checks are    *)
(* one preflight that may refuse.                                          *)
(***************************************************************************)
EXTENDS Naturals, Sequences

CONSTANTS
    Deployer,        \* executions of deploy.sh that may overlap
    Release, None,
    MigrationsOf,    \* migrations.count of each manifest
    Deployable,      \* releases the environment class accepts
    VerifyMigrations,   \* ORGISTRY_MIGRATION_VERIFY=on
    MaxRecords       \* bound on the attempts

VARIABLES
    running,     \* the release of the API and of the web container
    applied,     \* migrations in the database
    ledger,      \* records/, oldest first
    current,     \* current.json, a release or None
    job,         \* deployments under way
    escaped,     \* history: releases a rollback has replaced
    astray       \* history: what has parted the ledger's last release from the one that runs

vars == <<running, applied, ledger, current, job, escaped, astray>>

Mode   == {"deploy", "rollback"}
Smoke  == {"passed", "failed", "not-run"}
Record == [release : Release, mode : Mode, smoke : Smoke]
Idle   == [step |-> "idle", release |-> None, mode |-> "deploy", migrate |-> FALSE, smoke |-> "not-run"]

TypeOK ==
    /\ running \in [{"api", "web"} -> Release \cup {None}]
    /\ applied \in Nat /\ current \in Release \cup {None}
    /\ ledger \in Seq(Record) /\ Len(ledger) <= MaxRecords
    /\ \A d \in Deployer : /\ job[d].release \in Release \cup {None}
                           /\ job[d].mode \in Mode /\ job[d].smoke \in Smoke
    /\ escaped \subseteq Release
    /\ astray \subseteq {"migration", "script", "interrupted"}

Init ==
    /\ running = [c \in {"api", "web"} |-> None] /\ applied = 0
    /\ ledger = <<>> /\ current = None
    /\ job = [d \in Deployer |-> Idle]
    /\ escaped = {} /\ astray = {}

-----------------------------------------------------------------------------
\* Mutant: a passed smoke test is all it takes.
Qualifies_AnyPassed(i) ==
    /\ ledger[i].smoke = "passed" /\ ledger[i].release # current

\* Releases that the record before a rollback names.
RolledAwayFrom ==
    {ledger[i - 1].release : i \in {j \in 2 .. Len(ledger) : ledger[j].mode = "rollback"}}

\* selectRollbackTarget: a record that qualifies, the newest of them.  A release
\* stands for its API reference, the order of the ledger for deployedAt.
Qualifies(i) ==
    /\ ledger[i].smoke = "passed" /\ ledger[i].release # current
    /\ ledger[i].release \notin RolledAwayFrom

IsRollbackTarget(r) ==
    \E i \in DOMAIN ledger :
        /\ Qualifies(i) /\ ledger[i].release = r
        /\ \A j \in DOMAIN ledger : Qualifies(j) => j <= i

Start(d, r, mode, migrate) ==
    /\ job[d] = Idle /\ Len(ledger) < MaxRecords
    /\ r \in Deployable
    /\ job' = [job EXCEPT ![d] = [step |-> "preflight", release |-> r, mode |-> mode,
                                  migrate |-> migrate, smoke |-> "not-run"]]
    /\ UNCHANGED <<running, applied, ledger, current, escaped, astray>>

Deploy(d, r)       == \E migrate \in BOOLEAN : Start(d, r, "deploy", migrate)
Rollback(d, r)     == current # None /\ IsRollbackTarget(r) /\ Start(d, r, "rollback", FALSE)

Goto(d, step) == job' = [job EXCEPT ![d].step = step]
At(d, step)   == job[d].step = step

\* deploy_die
Die(d, why) == job' = [job EXCEPT ![d] = Idle] /\ astray' = astray \cup why

\* Nothing has been touched: the attempt leaves no record, by design.
Refuse(d) ==
    /\ At(d, "preflight") /\ Die(d, {})
    /\ UNCHANGED <<running, applied, ledger, current, escaped>>

Preflight(d) ==
    /\ At(d, "preflight")
    /\ Goto(d, IF job[d].migrate THEN "migrate" ELSE "verify")
    /\ UNCHANGED <<running, applied, ledger, current, escaped, astray>>

Larger(m, n) == IF m > n THEN m ELSE n

Migrate(d) ==
    /\ At(d, "migrate")
    /\ applied' = Larger(applied, MigrationsOf[job[d].release])
    /\ Goto(d, "verify")
    /\ UNCHANGED <<running, ledger, current, escaped, astray>>

\* Every migration is a transaction of its own: some may have been applied.  The
\* attempt is recorded, and its release becomes current, though nothing was started.
MigrateFails(d) ==
    /\ At(d, "migrate")
    /\ applied' \in applied .. Larger(applied, MigrationsOf[job[d].release])
    /\ Goto(d, "record") /\ astray' = astray \cup {"migration"}
    /\ UNCHANGED <<running, ledger, current, escaped>>

\* Mutant: without a migration there is no head to verify.
HeadMatches_IfMigrated(d) ==
    VerifyMigrations /\ job[d].migrate => applied = MigrationsOf[job[d].release]

\* VerifyMigrations: the check is on and DATABASE_URL can be read.
HeadMatches(d) == VerifyMigrations => applied = MigrationsOf[job[d].release]

VerifyHead(d) ==
    /\ At(d, "verify")
    /\ IF HeadMatches(d) THEN Goto(d, "api") /\ UNCHANGED astray
       ELSE Die(d, IF job[d].migrate THEN {"script"} ELSE {})
    /\ UNCHANGED <<running, applied, ledger, current, escaped>>

\* docker compose up --wait: the old container is replaced, healthy or not.
Up(d, c) ==
    /\ running' = [running EXCEPT ![c] = job[d].release]
    /\ escaped' = IF job[d].mode = "rollback" /\ running[c] \notin {None, job[d].release}
                  THEN escaped \cup {running[c]} ELSE escaped

UpContainer(d) ==
    /\ \/ At(d, "api") /\ Up(d, "api") /\ Goto(d, "web")
       \/ At(d, "web") /\ Up(d, "web") /\ Goto(d, "ready")
    /\ UNCHANGED <<applied, ledger, current, astray>>

UpFails(d) ==
    /\ \E c \in {"api", "web"} : At(d, c) /\ (Up(d, c) \/ UNCHANGED <<running, escaped>>)
    /\ Die(d, {"script"})
    /\ UNCHANGED <<applied, ledger, current>>

\* /health, /ready and the identity of the running images.
Ready(d) ==
    /\ At(d, "ready") /\ \A c \in {"api", "web"} : running[c] = job[d].release
    /\ Goto(d, "smoke")
    /\ UNCHANGED <<running, applied, ledger, current, escaped, astray>>

NotReady(d) ==
    /\ At(d, "ready") /\ Die(d, {"script"})
    /\ UNCHANGED <<running, applied, ledger, current, escaped>>

SmokeTest(d) ==
    /\ At(d, "smoke")
    /\ \E s \in {"passed", "failed"} :
          job' = [job EXCEPT ![d].smoke = s, ![d].step = "record"]
    /\ UNCHANGED <<running, applied, ledger, current, escaped, astray>>

\* deploy-evidence.mjs record: the record first, current.json after it.
WriteRecord(d) ==
    /\ At(d, "record")
    /\ ledger' = Append(ledger, [release |-> job[d].release, mode |-> job[d].mode,
                                 smoke |-> job[d].smoke])
    /\ Goto(d, "current")
    /\ UNCHANGED <<running, applied, current, escaped, astray>>

WriteCurrent(d) ==
    /\ At(d, "current")
    /\ current' = job[d].release
    /\ Die(d, {})
    /\ UNCHANGED <<running, applied, ledger, escaped>>

\* The host, the disk or the operator stops the script.
Interrupt(d) ==
    /\ job[d].step \notin {"idle", "preflight"}
    /\ Die(d, {"interrupted"})
    /\ UNCHANGED <<running, applied, ledger, current, escaped>>

Next ==
    \E d \in Deployer :
        \/ \E r \in Release : Deploy(d, r) \/ Rollback(d, r)
        \/ Refuse(d) \/ Preflight(d) \/ Migrate(d) \/ MigrateFails(d) \/ VerifyHead(d)
        \/ UpContainer(d) \/ UpFails(d) \/ Ready(d) \/ NotReady(d) \/ SmokeTest(d)
        \/ WriteRecord(d) \/ WriteCurrent(d) \/ Interrupt(d)

Spec == Init /\ [][Next]_vars

-----------------------------------------------------------------------------
\* The API never runs against a schema that is older than its release, whatever
\* mix of deployments, rollbacks and --no-migrate runs an operator starts and
\* wherever they fail: the head is verified, not assumed.
SchemaCoversCode ==
    VerifyMigrations /\ running["api"] # None => MigrationsOf[running["api"]] <= applied

\* A rollback never starts a release that an earlier rollback has replaced
\* (releasesRolledAwayFrom), as long as the ledger's last record is of what runs:
\* every attempt left its record, and none was recorded that started nothing.
AvoidsEscaped ==
    \A d \in Deployer :
        astray = {} /\ job[d] = Idle /\ job'[d].mode = "rollback"
            => job'[d].release \notin escaped
RollbackNeverReturns == [][AvoidsEscaped]_vars

\* Every attempt that reached the target, because it ran the migrations or
\* replaced a container, and that the script itself gave up is in the ledger.
\* Refuted: a container that does not come up ends the script before the record.
FailuresAreRecorded == "script" \notin astray
=============================================================================
