CONSTANTS
    Checked = {"deployment", "one gate", "two gates", "wal", "wal setup", "drill", "rehearsal",
               "replay", "two replays", "replay drill", "base backup", "dump"}
    None = None
    a1 = a1
    a2 = a2
    o1 = o1
    o2 = o2
    o3 = o3
    MaxTimeOf <- MCMaxTimeOf
    MaxSegmentOf <- MCMaxSegmentOf
    Deployer = {"operator"}
    Release = {o1, o2, o3}
    MigrationsOf <- MCMigrationsOf
    Approved = {o1, o2, o3}
    VerifyMigrations = TRUE
    MaxRecords = 4
    Sha = {"main", "branch"}
    Main = {"main"}
    MaxReruns = 1
    GatesOf <- MCGatesOf
    MaxAge = 1
    ArchiveTimeout = 1
    ArchiverHangs = FALSE
    Found = {"nothing", "this", "other"}
    MaxPolls = 1
    MaxRun = 3
    MaxPoint = 2
    MaxWrite = 1
    MaxMigration = 2
    MaxKey = 2
    ReplayOf <- MCReplayOf
    BackupsOf <- MCBackupsOf
    Pruner = {"prune"}
    BackupDays = 0
    WalDays = 2
    JobDays = 1
SYMMETRY MCSymmetry
SPECIFICATION Spec
INVARIANTS
    ReportsAreTrue
    LiveComesBack
    SchemaCoversCode
    BackupsAreWhole
PROPERTIES
    RollbackNeverReturns
    WalIsRecoverable
CHECK_DEADLOCK FALSE
