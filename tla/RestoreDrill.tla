---------------------------- MODULE RestoreDrill ----------------------------
(***************************************************************************)
(* The logical restore drill (db-restore-drill.sh) and the backup it takes *)
(* (db-backup.sh).  The drill uses fixed names on the Docker host, so a    *)
(* run meets what a killed, kept or half-cleaned run has left there; and   *)
(* its purpose is to fail when the backup path loses data.  One drill runs *)
(* at a time: the cleanup of a second removes the containers of the first. *)
(***************************************************************************)
EXTENDS Naturals

CONSTANTS
    None,
    MaxRun       \* executions of the drill

Run       == 1 .. MaxRun
Container == {"source", "target", "redis", "api"}
Database  == {"source", "target"}

VARIABLES
    network,     \* whether the drill's network exists
    containers,  \* names in use
    volumes,     \* what each data volume holds
    dump,        \* the backup in the work directory of the run
    drill        \* the run, its step and its options

vars == <<network, containers, volumes, dump, drill>>

\* from: the run whose seed the rows are.
NoData == [schema |-> "none", rows |-> "none", from |-> None]
NoDump == [content |-> "none", from |-> None]

TypeOK ==
    /\ network \in BOOLEAN /\ containers \subseteq Container
    /\ volumes \in [Database -> [schema : {"none", "part", "full"},
                                 rows : {"none", "part", "full"}, from : Run \cup {None}]]
    /\ dump \in [content : {"none", "void", "lossy", "torn", "whole"}, from : Run \cup {None}]
    /\ drill \in [run : 0 .. MaxRun, artifact : BOOLEAN, keep : BOOLEAN,
                  step : {"idle", "network", "source", "migrate", "seed", "dump", "checksum",
                          "target", "empty", "restore", "verify", "remigrate", "api", "read",
                          "sweep", "recount", "passed", "failed"}]

Init ==
    /\ network = FALSE /\ containers = {}
    /\ volumes = [d \in Database |-> NoData]
    /\ dump = NoDump
    /\ drill = [run |-> 0, step |-> "idle", artifact |-> FALSE, keep |-> FALSE]

At(s)   == drill.step = s
Goto(s) == drill' = [drill EXCEPT !.step = s]
Assert(condition, next) == Goto(IF condition THEN next ELSE "failed")

-----------------------------------------------------------------------------
\* mktemp -d: every run has a work directory of its own.
Start ==
    /\ At("idle") /\ drill.run < MaxRun
    /\ \E artifact, keep \in BOOLEAN :
          drill' = [run |-> drill.run + 1, step |-> "network", artifact |-> artifact, keep |-> keep]
    /\ dump' = NoDump
    /\ UNCHANGED <<network, containers, volumes>>

CreateNetwork ==
    /\ At("network")
    /\ Assert(~network, "source")
    /\ network' = TRUE
    /\ UNCHANGED <<containers, volumes, dump>>

\* pg_start_server and pg_wait_ready: the name must be free; a volume that
\* exists is taken as it is.
StartServer(name, from, to) ==
    /\ At(from)
    /\ Assert(name \notin containers, to)
    /\ containers' = containers \cup {name}
    /\ UNCHANGED <<network, volumes, dump>>

StartSource == StartServer("source", "source", "migrate")
StartTarget == StartServer("target", "target", "empty")

\* migrate_database: a no-op on a migrated database; tables a migration would
\* create make it fail.
Migrate(name, from, to) ==
    /\ At(from)
    /\ Assert(volumes[name].schema # "part", to)
    /\ volumes' = [volumes EXCEPT ![name].schema = IF @ = "none" THEN "full" ELSE @]
    /\ UNCHANGED <<network, containers, dump>>

MigrateSource == Migrate("source", "migrate", "seed")

\* The fixture's identifiers are fixed: its rows go into a database once.
Seed ==
    /\ At("seed")
    /\ IF volumes["source"].rows = "none"
       THEN Goto("dump") /\ volumes' = [volumes EXCEPT !["source"].rows = "full",
                                                       !["source"].from = drill.run]
       ELSE Goto("failed") /\ UNCHANGED volumes
    /\ UNCHANGED <<network, containers, dump>>

\* db-backup.sh: what pg_dump does not say failed is kept, with its checksum.  The
\* backup path may be broken: rows are left out, or everything is.
Dump ==
    /\ At("dump") /\ Goto("checksum")
    /\ \E content \in {"whole", "lossy", "void"} :
          dump' = [content |-> content, from |-> volumes["source"].from]
    /\ UNCHANGED <<network, containers, volumes>>

\* The file is damaged after its checksum was taken.
Damage ==
    /\ At("checksum") /\ dump.content # "torn"
    /\ dump' = [dump EXCEPT !.content = "torn"]
    /\ UNCHANGED <<network, containers, volumes, drill>>

\* sha256sum --check, and a truncated copy that pg_restore must reject.
VerifyChecksum ==
    /\ At("checksum")
    /\ Assert(dump.content # "torn", "target")
    /\ UNCHANGED <<network, containers, volumes, dump>>

-----------------------------------------------------------------------------
\* Mutant: the target is taken for fresh.
Fresh_Assumed(data) == TRUE

\* No public tables, before and after a restore of an artifact that is missing.
Fresh(data) == data.schema = "none"

AssertFresh ==
    /\ At("empty")
    /\ Assert(Fresh(volumes["target"]), "restore")
    /\ UNCHANGED <<network, containers, volumes, dump>>

\* pg_restore --exit-on-error: a table that exists ends it at once, any other
\* failure leaves what it has restored.
Restore ==
    /\ At("restore")
    /\ \/ /\ dump.content = "void" /\ Goto("verify") /\ UNCHANGED volumes
       \/ /\ dump.content # "void" /\ volumes["target"].schema # "none"
          /\ Goto("failed") /\ UNCHANGED volumes
       \/ /\ dump.content \in {"whole", "lossy"} /\ volumes["target"].schema = "none"
          /\ Goto("verify")
          /\ volumes' = [volumes EXCEPT !["target"] =
                [schema |-> "full", from |-> dump.from,
                 rows |-> IF dump.content = "whole" THEN "full" ELSE "part"]]
       \/ /\ dump.content # "void" /\ volumes["target"].schema = "none"
          /\ Goto("failed")
          /\ \E schema \in {"part", "full"} :
                volumes' = [volumes EXCEPT !["target"] =
                   [schema |-> schema, from |-> dump.from,
                    rows |-> IF schema = "full" THEN "part" ELSE "none"]]
    /\ UNCHANGED <<network, containers, dump>>

\* Every table, the migration ledger, the count of every seeded entity, the
\* join from owner to project and the hash of the API key.
Complete(data) == data.schema = "full" /\ data.rows = "full"

Verify ==
    /\ At("verify")
    /\ Assert(Complete(volumes["target"]), "remigrate")
    /\ UNCHANGED <<network, containers, volumes, dump>>

Remigrate == Migrate("target", "remigrate", IF drill.artifact THEN "api" ELSE "passed")

\* The packaged API against the restored database, ready.
StartApi ==
    /\ At("api")
    /\ Assert(containers \cap {"redis", "api"} = {}, "read")
    /\ containers' = containers \cup {"redis", "api"}
    /\ UNCHANGED <<network, volumes, dump>>

\* The restored key reads the restored projects; an unknown key is refused; no
\* secret is in the logs.
ReadBack ==
    /\ At("read")
    /\ Assert(Complete(volumes["target"]), "sweep")
    /\ UNCHANGED <<network, containers, volumes, dump>>

\* The retention command, which finds nothing that has aged; then the rows are
\* counted again.
Sweep   == At("sweep") /\ Goto("recount") /\ UNCHANGED <<network, containers, volumes, dump>>
Recount ==
    /\ At("recount")
    /\ Assert(Complete(volumes["target"]), "passed")
    /\ UNCHANGED <<network, containers, volumes, dump>>

-----------------------------------------------------------------------------
\* Any command may fail; most leave nothing behind.
Fail ==
    /\ drill.step \notin {"idle", "passed", "failed"}
    /\ Goto("failed")
    /\ UNCHANGED <<network, containers, volumes, dump>>

\* The drill is killed, and its trap does not run.
Kill ==
    /\ ~At("idle")
    /\ Goto("idle")
    /\ UNCHANGED <<network, containers, volumes, dump>>

\* cleanup: what cannot be removed is left; a container keeps its volume and the
\* network.
Cleanup ==
    /\ drill.step \in {"passed", "failed"} /\ Goto("idle")
    /\ IF drill.keep THEN UNCHANGED <<network, containers, volumes, dump>>
       ELSE /\ \E left \in SUBSET containers, kept \in SUBSET Database :
                  /\ left \cap Database \subseteq kept
                  /\ containers' = left
                  /\ volumes' = [d \in Database |-> IF d \in kept THEN volumes[d] ELSE NoData]
                  /\ network' \in IF left # {} THEN {network} ELSE {FALSE, network}
            /\ dump' = NoDump

Next ==
    \/ Start \/ CreateNetwork \/ StartSource \/ MigrateSource \/ Seed
    \/ Dump \/ Damage \/ VerifyChecksum
    \/ StartTarget \/ AssertFresh \/ Restore \/ Verify \/ Remigrate
    \/ StartApi \/ ReadBack \/ Sweep \/ Recount
    \/ Fail \/ Kill \/ Cleanup

Spec == Init /\ [][Next]_vars

-----------------------------------------------------------------------------
\* A drill that passes has restored, whole, the data this very run seeded, from
\* a backup that held all of it; never the data of an earlier run
\* (db-restore-drill.sh:42-43: a drill that leaves state behind can pass on the
\* previous run's data).
PassProvesRestore ==
    At("passed") =>
        /\ dump = [content |-> "whole", from |-> drill.run]
        /\ volumes["target"] = [schema |-> "full", rows |-> "full", from |-> drill.run]
=============================================================================
