------------------------------ MODULE Operations ------------------------------
(***************************************************************************)
(* The programs that an operator or a timer starts, side by side: the      *)
(* deployment scripts, the release gates, the archiving of WAL and its     *)
(* setup, the backup programme and the drills and rehearsals of recovery.  *)
(* A behaviour is one of one component, chosen in the initial state: each  *)
(* behaves as if it were alone.  The variables are those of all            *)
(* components, and one name serves every component that uses it; a         *)
(* component leaves the variables of the others at None.                   *)
(*                                                                         *)
(* A constant keeps the name its component gives it where no other         *)
(* component uses that name for something else.                            *)
(***************************************************************************)
EXTENDS Naturals, Sequences, FiniteSets

CONSTANTS
    Checked,                   \* the components explored
    None,
    MaxTimeOf, MaxSegmentOf,   \* by component: its MaxTime, its MaxSegment
    Deployer, Release, MigrationsOf, VerifyMigrations, MaxRecords,         \* Deployment
    Approved,                  \* Deployment: its Deployable
    Main, MaxReruns,                                                       \* Release
    Sha,                       \* Release: its Commit
    GatesOf,                   \* by component: its workflows, checks and bound of runs
    MaxAge, ArchiveTimeout, ArchiverHangs,                                 \* WalArchive
    Found, MaxPolls,                                                       \* WalSetup
    MaxRun,                                                                \* RestoreDrill
    MaxPoint, MaxWrite, MaxMigration, MaxKey,                              \* RestoreRehearsal
    ReplayOf,                  \* by component: its rehearsals and their surroundings
    BackupsOf,                 \* by component: the kinds taken and the number kept
    Pruner, BackupDays, WalDays, JobDays                                   \* Backup

VARIABLES component, running, applied, ledger, current, job, escaped, astray,
    runs, reruns, green, verify, files, manifest, now, dirty, closed, file,
    archiver, stats, offhost, ship, health, directory, owned, auto, mode,
    loaded, archived, copying, spool, run, network, containers, volumes, dump,
    drill, live, key, backup, dumped, objects, documents, rehearsal, target,
    log, segment, base, recovered, disturbed, wal, stored, described, first,
    walShip, prune

vars == <<component, running, applied, ledger, current, job, escaped, astray,
          runs, reruns, green, verify, files, manifest, now, dirty, closed, file,
          archiver, stats, offhost, ship, health, directory, owned, auto, mode,
          loaded, archived, copying, spool, run, network, containers, volumes,
          dump, drill, live, key, backup, dumped, objects, documents, rehearsal,
          target, log, segment, base, recovered, disturbed, wal, stored,
          described, first, walShip, prune>>

-----------------------------------------------------------------------------
Deployment == INSTANCE Deployment WITH Deployable <- Approved
\* The required checks are one or two, as the component is called.
Gates(x)   == INSTANCE Release WITH
                Commit <- Sha, Workflow <- GatesOf[x].workflows, Check <- GatesOf[x].checks,
                WorkflowOf <- GatesOf[x].workflowOf, MaxRun <- GatesOf[x].runs
WalArchive == INSTANCE WalArchive WITH
                MaxTime <- MaxTimeOf.wal, MaxSegment <- MaxSegmentOf.wal
WalSetup   == INSTANCE WalSetup WITH MaxSegment <- MaxSegmentOf.setup
Drill      == INSTANCE RestoreDrill
Rehearsal  == INSTANCE RestoreRehearsal
\* One rehearsal of point-in-time recovery, two, or the drill.
Replay(x)  == INSTANCE PointInTime WITH
                Operator <- ReplayOf[x].operators, OffHost <- ReplayOf[x].offHost,
                RowsAtStart <- ReplayOf[x].rows, MaxOthers <- ReplayOf[x].others,
                MaxTimed <- ReplayOf[x].timed, MaxLog <- ReplayOf[x].log
\* Base backups with the WAL they need, or logical backups.
Backups(x) == INSTANCE Backup WITH
                Kind <- BackupsOf[x].kinds, Minimum <- BackupsOf[x].minimum,
                MaxTime <- MaxTimeOf.backup, MaxSegment <- MaxSegmentOf[x]

Gated    == {"one gate", "two gates"}
Replayed == {"replay", "two replays", "replay drill"}
Stored   == {"base backup", "dump"}

-----------------------------------------------------------------------------
\* A manifest counts its migrations, and one operator deploys at a time.
ASSUME DeploymentAssumption ==
    /\ MigrationsOf \in [Release -> Nat] /\ None \notin Release
    /\ \A d, e \in Deployer : d = e

ASSUME GatesAssumption == \A x \in Gated : GatesOf[x].runs \in Nat /\ None \notin Gates(x)!Run

ASSUME WalAssumption == MaxAge \in Nat /\ MaxSegmentOf.wal \in Nat /\ None \notin Nat

ASSUME DrillAssumption == MaxRun \in Nat

ASSUME RehearsalAssumption == MaxPoint \in Nat /\ MaxMigration \in Nat

\* The project that a rehearsal deletes and inserts again is there before the first.
ASSUME ReplayAssumption ==
    \A x \in Replayed :
        /\ None \notin ReplayOf[x].operators /\ ReplayOf[x].rows \subseteq BOOLEAN
        /\ ReplayOf[x].offHost => ReplayOf[x].rows \subseteq {TRUE}

\* The window of WAL outlasts two runs of a command.
ASSUME BackupsAssumption ==
    /\ BackupDays \in Nat /\ WalDays \in Nat /\ JobDays \in Nat /\ WalDays >= JobDays + JobDays
    /\ MaxTimeOf.backup \in Nat
    /\ \A x \in Stored :
          /\ MaxSegmentOf[x] \in Nat /\ BackupsOf[x].minimum \in Nat
          /\ BackupsOf[x].kinds \subseteq {"logical", "base"}

ASSUME SetupAssumption == Found \subseteq {"nothing", "this", "other"}

-----------------------------------------------------------------------------
Unused ==
    /\ component # "deployment" =>
          /\ running = None /\ applied = None /\ ledger = None /\ current = None
          /\ job = None /\ escaped = None /\ astray = None
    /\ component \notin Gated =>
          /\ runs = None /\ reruns = None /\ green = None /\ verify = None
          /\ files = None /\ manifest = None
    /\ component \notin {"wal"} \cup Stored => now = None /\ ship = None
    /\ component \notin {"wal", "wal setup"} => dirty = None /\ closed = None
    /\ component \notin {"wal", "rehearsal"} => file = None
    /\ component # "wal" =>
          /\ archiver = None /\ stats = None /\ offhost = None /\ health = None
    /\ component # "wal setup" =>
          /\ directory = None /\ owned = None /\ auto = None /\ mode = None
          /\ loaded = None /\ archived = None /\ copying = None
    /\ component \notin {"wal setup"} \cup Stored => spool = None
    /\ component \notin {"wal setup"} \cup Replayed => run = None
    /\ component # "drill" =>
          /\ network = None /\ containers = None /\ volumes = None /\ dump = None
          /\ drill = None
    /\ component # "rehearsal" =>
          /\ live = None /\ key = None /\ backup = None /\ dumped = None
          /\ objects = None /\ documents = None /\ rehearsal = None /\ target = None
    /\ component \notin Replayed =>
          /\ log = None /\ base = None /\ recovered = None /\ disturbed = None
    /\ component \notin Replayed \cup Stored => segment = None
    /\ component \notin Stored =>
          /\ wal = None /\ stored = None /\ described = None /\ first = None
          /\ walShip = None /\ prune = None

Init ==
    /\ component \in Checked
    /\ Unused
    /\ \/ component = "deployment" /\ Deployment!Init
       \/ \E x \in Gated : component = x /\ Gates(x)!Init
       \/ component = "wal"        /\ WalArchive!Init
       \/ component = "wal setup"  /\ WalSetup!Init
       \/ component = "drill"      /\ Drill!Init
       \/ component = "rehearsal"  /\ Rehearsal!Init
       \/ \E x \in Replayed : component = x /\ Replay(x)!Init
       \/ \E x \in Stored : component = x /\ Backups(x)!Init

KeepUnused ==
    /\ component # "deployment" =>
          UNCHANGED <<running, applied, ledger, current, job, escaped, astray>>
    /\ component \notin Gated => UNCHANGED <<runs, reruns, green, verify, files, manifest>>
    /\ component \notin {"wal"} \cup Stored => UNCHANGED <<now, ship>>
    /\ component \notin {"wal", "wal setup"} => UNCHANGED <<dirty, closed>>
    /\ component \notin {"wal", "rehearsal"} => UNCHANGED file
    /\ component # "wal" => UNCHANGED <<archiver, stats, offhost, health>>
    /\ component # "wal setup" =>
          UNCHANGED <<directory, owned, auto, mode, loaded, archived, copying>>
    /\ component \notin {"wal setup"} \cup Stored => UNCHANGED spool
    /\ component \notin {"wal setup"} \cup Replayed => UNCHANGED run
    /\ component # "drill" => UNCHANGED <<network, containers, volumes, dump, drill>>
    /\ component # "rehearsal" =>
          UNCHANGED <<live, key, backup, dumped, objects, documents, rehearsal, target>>
    /\ component \notin Replayed => UNCHANGED <<log, base, recovered, disturbed>>
    /\ component \notin Replayed \cup Stored => UNCHANGED segment
    /\ component \notin Stored =>
          UNCHANGED <<wal, stored, described, first, walShip, prune>>

Next ==
    /\ UNCHANGED component
    /\ KeepUnused
    /\ \/ component = "deployment" /\ Deployment!Next
       \/ \E x \in Gated : component = x /\ Gates(x)!Next
       \/ component = "wal"        /\ WalArchive!Next
       \/ component = "wal setup"  /\ WalSetup!Next
       \/ component = "drill"      /\ Drill!Next
       \/ component = "rehearsal"  /\ Rehearsal!Next
       \/ \E x \in Replayed : component = x /\ Replay(x)!Next
       \/ \E x \in Stored : component = x /\ Backups(x)!Next

Spec == Init /\ [][Next]_vars

-----------------------------------------------------------------------------
\* What a program that reports success has shown.
ReportsAreTrue ==
    /\ \A x \in Gated : component = x => Gates(x)!DeployableIsProven
    /\ component = "wal setup" => WalSetup!ActiveMeansArchiving
    /\ component = "drill"     => Drill!PassProvesRestore
    /\ component = "rehearsal" => Rehearsal!PassProvesRecovery
    /\ \A x \in Replayed : component = x => Replay(x)!PassProvesReplay

\* A rehearsal leaves the live database as it found it.
LiveComesBack ==
    \A x \in Replayed : component = x /\ ReplayOf[x].offHost => Replay(x)!LiveComesBack

\* The running release finds the migrations it was built with.
SchemaCoversCode == component = "deployment" => Deployment!SchemaCoversCode

\* A rollback does not return to a release that was rolled back from, if the ledger
\* has kept up with what runs.
RollbackNeverReturns == [][component = "deployment" => Deployment!AvoidsEscaped]_vars

\* A segment the server may recycle is stored whole, and a healthy verdict on
\* the archive bounds what a loss of the host would lose.
WalIsRecoverable ==
    /\ [](component = "wal" => WalArchive!ArchiveIsWhole)
    /\ [][component = "wal" => WalArchive!JudgesRightly]_vars

\* The backups that are kept can be restored, with the WAL they need.
BackupsAreWhole ==
    \A x \in Stored :
        component = x => Backups(x)!ChainIsUnbroken /\ Backups(x)!NewestAreReal
=============================================================================
