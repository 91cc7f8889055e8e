-------------------------- MODULE RestoreRehearsal --------------------------
(***************************************************************************)
(* Recovery from off-host storage: ship-backup (db-backup.sh, then         *)
(* encryptAndStore), fetch, and backup-restore-rehearsal.sh, which selects *)
(* a recovery point from the catalog, fetches and decrypts it, restores it *)
(* into a target of its own and checks what came back.  Meanwhile the live *)
(* database is written and migrated, further backups are taken, points are *)
(* pruned, the encryption key is replaced, and the store may damage an     *)
(* object or answer with another's bytes.                                  *)
(***************************************************************************)
EXTENDS Naturals

CONSTANTS
    None,
    MaxPoint,      \* backups taken
    MaxWrite,      \* writes to the live database
    MaxMigration,  \* migrations applied to it, or packaged in an image
    MaxKey         \* encryption keys

Point == 1 .. MaxPoint
Data  == [rows : 0 .. MaxWrite, ledger : 1 .. MaxMigration]

VARIABLES
    live,       \* the database that is backed up
    key,        \* the configured encryption key
    backup,     \* a run of ship-backup
    dumped,     \* what each backup read, in its snapshot
    objects,    \* the encrypted artifacts stored
    documents,  \* the metadata documents stored
    rehearsal,  \* the run: its step, its packaged image and the point it chose
    file,       \* the artifact in its work directory
    target      \* the database it restores into

vars == <<live, key, backup, dumped, objects, documents, rehearsal, file, target>>

NoBackup    == [step |-> "idle", point |-> 0, key |-> 0, ledger |-> 0]
NoRehearsal == [step |-> "idle", image |-> None, listed |-> {}, point |-> None, document |-> None]

TypeOK ==
    /\ live \in Data /\ key \in 1 .. MaxKey
    /\ backup.step \in {"idle", "started", "counted", "dumped", "stored"}
    /\ dumped \in [Point -> Data \cup {None}]
    /\ \A p \in Point : objects[p] # None => objects[p].key \in 1 .. MaxKey /\ objects[p].sound \in BOOLEAN
    /\ \A p \in Point : documents[p] # None => documents[p].ledger \in 1 .. MaxMigration
    /\ rehearsal.step \in {"idle", "catalog", "documents", "fetch", "digest", "restore", "ledger",
                           "rows", "migrate", "api", "passed", "failed"}
    /\ file \in Data \cup {None} /\ target \in Data \cup {None}

Init ==
    /\ live = [rows |-> 0, ledger |-> 1] /\ key = 1
    /\ backup = NoBackup /\ dumped = [p \in Point |-> None]
    /\ objects = [p \in Point |-> None] /\ documents = [p \in Point |-> None]
    /\ rehearsal = NoRehearsal /\ file = None /\ target = None

store  == <<objects, documents>>
inRun  == <<rehearsal, file, target>>

-----------------------------------------------------------------------------
\* The live system.
Write ==
    /\ live.rows < MaxWrite /\ live' = [live EXCEPT !.rows = @ + 1]
    /\ UNCHANGED <<key, backup, dumped, store, inRun>>

Migrate ==
    /\ live.ledger < MaxMigration /\ live' = [live EXCEPT !.ledger = @ + 1]
    /\ UNCHANGED <<key, backup, dumped, store, inRun>>

\* The operator replaces the key file; every command reads it when it starts.
ReplaceKey ==
    /\ key < MaxKey /\ key' = key + 1
    /\ UNCHANGED <<live, backup, dumped, store, inRun>>

-----------------------------------------------------------------------------
\* ship-backup.  The migrations are counted before pg_dump takes its snapshot.
StartBackup ==
    /\ backup.step = "idle" /\ backup.point < MaxPoint
    /\ backup' = [backup EXCEPT !.step = "started", !.point = @ + 1, !.key = key]
    /\ UNCHANGED <<live, key, dumped, store, inRun>>

CountMigrations ==
    /\ backup.step = "started"
    /\ backup' = [backup EXCEPT !.step = "counted", !.ledger = live.ledger]
    /\ UNCHANGED <<live, key, dumped, store, inRun>>

TakeDump ==
    /\ backup.step = "counted"
    /\ dumped' = [dumped EXCEPT ![backup.point] = live]
    /\ backup' = [backup EXCEPT !.step = "dumped"]
    /\ UNCHANGED <<live, key, store, inRun>>

\* encryptFile and putFile: the digest of the plaintext is in the header, which
\* the tag authenticates.
StoreArtifact ==
    /\ backup.step = "dumped"
    /\ objects' = [objects EXCEPT ![backup.point] =
                     [plain |-> dumped[backup.point], digest |-> dumped[backup.point],
                      key |-> backup.key, sound |-> TRUE]]
    /\ backup' = [backup EXCEPT !.step = "stored"]
    /\ UNCHANGED <<live, key, dumped, documents, inRun>>

StoreDocument ==
    /\ backup.step = "stored" /\ objects[backup.point] # None
    /\ documents' = [documents EXCEPT ![backup.point] =
                       [digest |-> dumped[backup.point], ledger |-> backup.ledger]]
    /\ backup' = [backup EXCEPT !.step = "idle"]
    /\ UNCHANGED <<live, key, dumped, objects, inRun>>

BackupFails ==
    /\ backup.step # "idle" /\ backup' = [backup EXCEPT !.step = "idle"]
    /\ UNCHANGED <<live, key, dumped, store, inRun>>

-----------------------------------------------------------------------------
\* prune removes the artifact, then the document.
Prune(p) ==
    /\ documents[p] # None
    /\ \/ objects[p] # None /\ objects' = [objects EXCEPT ![p] = None] /\ UNCHANGED documents
       \/ objects[p] = None /\ documents' = [documents EXCEPT ![p] = None] /\ UNCHANGED objects
    /\ UNCHANGED <<live, key, backup, dumped, inRun>>

\* Bytes of the object change.
Damage(p) ==
    /\ objects[p] # None /\ objects[p].sound
    /\ objects' = [objects EXCEPT ![p].sound = FALSE]
    /\ UNCHANGED <<live, key, backup, dumped, documents, inRun>>

\* The object is overwritten by another point's.
Misplace(p, q) ==
    /\ objects[p] # None /\ objects[q] # None /\ objects[p] # objects[q]
    /\ objects' = [objects EXCEPT ![p] = objects[q]]
    /\ UNCHANGED <<live, key, backup, dumped, documents, inRun>>

-----------------------------------------------------------------------------
\* backup-restore-rehearsal.sh.
At(s)  == rehearsal.step = s
Goto(s) == rehearsal' = [rehearsal EXCEPT !.step = s]
Check(condition, next) == Goto(IF condition THEN next ELSE "failed")

elsewhere == <<live, key, backup, dumped, store>>

Begin ==
    /\ At("idle")
    /\ \E image \in {None} \cup 1 .. MaxMigration :
          rehearsal' = [NoRehearsal EXCEPT !.step = "catalog", !.image = image]
    /\ file' = None /\ target' = None
    /\ UNCHANGED elsewhere

\* readCatalog lists artifacts and documents once, then reads the documents.
ListObjects ==
    /\ At("catalog")
    /\ rehearsal' = [rehearsal EXCEPT !.step = "documents",
                       !.listed = {p \in Point : objects[p] # None /\ documents[p] # None}]
    /\ UNCHANGED <<elsewhere, file, target>>

\* The newest point that is uploaded, or the one the operator names.
Uploaded(listed) == {p \in listed : documents[p] # None}

SelectPoint ==
    /\ At("documents")
    /\ \/ Uploaded(rehearsal.listed) = {} /\ Goto("failed")
       \/ \E p \in Uploaded(rehearsal.listed) :
             rehearsal' = [rehearsal EXCEPT !.step = "fetch", !.point = p, !.document = documents[p]]
    /\ UNCHANGED <<elsewhere, file, target>>

\* decryptFile: the key the header names, the tag and the digest in the header.
Decrypts(object) ==
    /\ object # None
    /\ object.key = key
    /\ object.sound
    /\ object.plain = object.digest

Fetch ==
    /\ At("fetch")
    /\ Check(Decrypts(objects[rehearsal.point]), "digest")
    /\ file' = IF Decrypts(objects[rehearsal.point]) THEN objects[rehearsal.point].plain ELSE None
    /\ UNCHANGED <<elsewhere, target>>

\* Mutant: the digest the artifact carries is trusted.
Matches_HeaderOnly(plain, document) == TRUE

\* sha256 of what was fetched, against the catalog's.
Matches(plain, document) == plain = document.digest

VerifyDigest ==
    /\ At("digest")
    /\ Check(Matches(file, rehearsal.document), "restore")
    /\ UNCHANGED <<elsewhere, file, target>>

\* A new container and volume, named after the run; pg_restore --exit-on-error.
Restore ==
    /\ At("restore") /\ target = None
    /\ target' = file /\ Goto("ledger")
    /\ UNCHANGED <<elsewhere, file>>

VerifyLedger ==
    /\ At("ledger")
    /\ Check(target.ledger = rehearsal.document.ledger, "rows")
    /\ UNCHANGED <<elsewhere, file, target>>

\* The catalogs and the rows of the seeded organization, which every backup
\* holds; the live system's other rows are not looked at.
VerifyRows ==
    /\ At("rows")
    /\ Goto(IF rehearsal.image = None THEN "passed" ELSE "migrate")
    /\ UNCHANGED <<elsewhere, file, target>>

\* The packaged migrations must be a no-op on what was restored.
Remigrate ==
    /\ At("migrate")
    /\ Check(rehearsal.image <= rehearsal.document.ledger, "api")
    /\ target' = IF rehearsal.image > target.ledger
                 THEN [target EXCEPT !.ledger = rehearsal.image] ELSE target
    /\ UNCHANGED <<elsewhere, file>>

\* /health and /ready of the packaged API.
StartApi == At("api") /\ Goto("passed") /\ UNCHANGED <<elsewhere, file, target>>

\* Any command of the script fails.
Fail ==
    /\ rehearsal.step \notin {"idle", "passed", "failed"}
    /\ Goto("failed") /\ UNCHANGED <<elsewhere, file, target>>

Cleanup ==
    /\ rehearsal.step \in {"passed", "failed"}
    /\ rehearsal' = NoRehearsal /\ file' = None /\ target' = None
    /\ UNCHANGED elsewhere

Next ==
    \/ Write \/ Migrate \/ ReplaceKey
    \/ StartBackup \/ CountMigrations \/ TakeDump \/ StoreArtifact \/ StoreDocument \/ BackupFails
    \/ \E p \in Point : Prune(p) \/ Damage(p) \/ (\E q \in Point \ {p} : Misplace(p, q))
    \/ Begin \/ ListObjects \/ SelectPoint \/ Fetch \/ VerifyDigest \/ Restore
    \/ VerifyLedger \/ VerifyRows \/ Remigrate \/ StartApi \/ Fail \/ Cleanup

Spec == Init /\ [][Next]_vars

-----------------------------------------------------------------------------
\* A rehearsal that passes has restored exactly what the backup it names read
\* from the database, whatever became of the store, the key and the live system
\* in between (backup-restore-rehearsal.sh:179-190).
PassProvesRecovery == At("passed") => target = dumped[rehearsal.point]
=============================================================================
