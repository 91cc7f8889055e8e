----------------------------- MODULE WalArchive -----------------------------
(***************************************************************************)
(* Continuous archiving as pg-enable-wal-archiving.sh sets it up, and the  *)
(* verdict of wal-health on it.  PostgreSQL closes segments and runs       *)
(*     test ! -f spool/%f && cp %p spool/%f && chmod 640 spool/%f          *)
(* on them, one at a time and in order; ship-wal takes what it may read    *)
(* out of the spool, off-host; wal-health reads the store, the statistics  *)
(* of the archiver and the spool, one after the other.                     *)
(*                                                                         *)
(* Time is in units that are a fraction of the age limit.  Within one the  *)
(* archiver catches up or fails (ArchiverHangs lifts that), and a run of   *)
(* wal-health ends.                                                        *)
(***************************************************************************)
EXTENDS Naturals, FiniteSetsExt

CONSTANTS
    None,
    MaxAge,          \* ORGISTRY_BACKUP_WAL_MAX_AGE_MINUTES
    ArchiveTimeout,  \* archive_timeout
    ArchiverHangs,   \* whether an attempt may take for ever
    MaxSegment, MaxTime

Segment == 0 .. MaxSegment
Time    == 0 .. MaxTime

VARIABLES
    now,
    dirty,     \* when the current segment was first written to, or None
    closed,    \* when each segment was closed, or None
    file,      \* each segment's file in the spool
    archiver,  \* attempt under way, segments marked, whether the last attempt failed in this unit
    stats,     \* pg_stat_archiver
    offhost,   \* stored objects
    ship,      \* a run of ship-wal
    health     \* a run of wal-health and its verdict

vars == <<now, dirty, closed, file, archiver, stats, offhost, ship, health>>

\* A file is open and growing, complete but still private to the server's
\* account, or complete and readable to the shipper's group.
NoFile   == [state |-> "none", at |-> 0]
NoObject == [content |-> "none", at |-> 0]
NoShip   == [step |-> "idle", segment |-> None, content |-> "none"]
NoHealth == [step |-> "idle", store |-> [s \in Segment |-> NoObject], stats |-> None,
             pending |-> FALSE, verdict |-> "none"]

TypeOK ==
    /\ now \in Time /\ dirty \in Time \cup {None} /\ closed \in [Segment -> Time \cup {None}]
    /\ file \in [Segment -> [state : {"none", "open", "private", "whole"}, at : Time]]
    /\ archiver.step \in {"idle", "copy", "publish", "mark"} /\ archiver.failed \in BOOLEAN
    /\ stats.archived \in Segment \cup {MaxSegment + 1}
    /\ {stats.lastArchived, stats.lastFailed} \subseteq Time \cup {None}
    /\ offhost \in [Segment -> [content : {"none", "torn", "whole"}, at : Time]]
    /\ ship.step \in {"idle", "read", "stored"} /\ ship.segment \in Segment \cup {None}
    /\ health.step \in {"idle", "listed", "queried"}
    /\ health.verdict \in {"none", "healthy", "unhealthy"}

Init ==
    /\ now = 0 /\ dirty = None /\ closed = [s \in Segment |-> None]
    /\ file = [s \in Segment |-> NoFile]
    /\ archiver = [step |-> "idle", done |-> 0, failed |-> FALSE]
    /\ stats = [archived |-> 0, lastArchived |-> None, lastFailed |-> None]
    /\ offhost = [s \in Segment |-> NoObject]
    /\ ship = NoShip /\ health = NoHealth

-----------------------------------------------------------------------------
\* PostgreSQL.  The archiver has marked the segments below archiver.done.
Open  == {s \in Segment : closed[s] = None}
Ready == {s \in Segment : closed[s] # None /\ s >= archiver.done}
Current == archiver.done      \* the segment the archiver is at

Write ==
    /\ dirty = None /\ Open # {}
    /\ dirty' = now
    /\ UNCHANGED <<now, closed, file, archiver, stats, offhost, ship, health>>

\* The segment is full, or archive_timeout has passed.
Switch ==
    /\ dirty # None
    /\ closed' = [closed EXCEPT ![Min(Open)] = now] /\ dirty' = None
    /\ UNCHANGED <<now, file, archiver, stats, offhost, ship, health>>

AttemptFails ==
    /\ archiver' = [archiver EXCEPT !.step = "idle", !.failed = TRUE]
    /\ stats' = [stats EXCEPT !.lastFailed = now]

\* test ! -f, and cp creates the file.
Begin ==
    /\ archiver.step = "idle" /\ Ready # {}
    /\ IF file[Current].state = "none"
       THEN /\ file' = [file EXCEPT ![Current] = [state |-> "open", at |-> now]]
            /\ archiver' = [archiver EXCEPT !.step = "copy", !.failed = FALSE]
            /\ UNCHANGED stats
       ELSE AttemptFails /\ UNCHANGED file
    /\ UNCHANGED <<now, dirty, closed, offhost, ship, health>>

\* Mutant: the file is readable to the group while cp writes it.
Readable_WhileCopied(s) == file[s].state # "none"

\* Until chmod the file has the mode of the segment, 0600.
Readable(s) == file[s].state = "whole"

\* The file may be gone by then: only ship-wal removes one, and only a readable one.
Copy ==
    /\ archiver.step = "copy"
    /\ file' = [file EXCEPT ![Current] =
          IF @.state = "none" THEN @ ELSE [state |-> "private", at |-> now]]
    /\ archiver' = [archiver EXCEPT !.step = "publish"]
    /\ UNCHANGED <<now, dirty, closed, stats, offhost, ship, health>>

Publish ==
    /\ archiver.step = "publish"
    /\ IF file[Current].state = "none" THEN AttemptFails /\ UNCHANGED file
       ELSE /\ file' = [file EXCEPT ![Current].state = "whole"]
            /\ archiver' = [archiver EXCEPT !.step = "mark"]
            /\ UNCHANGED stats
    /\ UNCHANGED <<now, dirty, closed, offhost, ship, health>>

Mark ==
    /\ archiver.step = "mark"
    /\ archiver' = [step |-> "idle", done |-> archiver.done + 1, failed |-> FALSE]
    /\ stats' = [stats EXCEPT !.archived = @ + 1, !.lastArchived = now]
    /\ UNCHANGED <<now, dirty, closed, file, offhost, ship, health>>

\* cp fails, for want of space say; what it has written stays.
CopyFails ==
    /\ archiver.step = "copy"
    /\ AttemptFails
    /\ UNCHANGED <<now, dirty, closed, file, offhost, ship, health>>

\* The server crashes: the attempt is cut short, and the statistics are lost.
Crash ==
    /\ archiver' = [archiver EXCEPT !.step = "idle"]
    /\ stats' = [archived |-> 0, lastArchived |-> None, lastFailed |-> None]
    /\ UNCHANGED <<now, dirty, closed, file, offhost, ship, health>>

-----------------------------------------------------------------------------
\* ship-wal: the segments of the spool in order; one it cannot read ends the run.
Spool == {s \in Segment : file[s].state # "none"}

Read ==
    /\ ship.step = "idle" /\ Spool # {}
    /\ LET s == Min(Spool) IN
       /\ Readable(s)
       /\ ship' = [step |-> "read", segment |-> s,
                   content |-> IF file[s].state = "open" THEN "torn" ELSE "whole"]
    /\ UNCHANGED <<now, dirty, closed, file, archiver, stats, offhost, health>>

Store ==
    /\ ship.step = "read"
    /\ offhost' = [offhost EXCEPT ![ship.segment] = [content |-> ship.content, at |-> now]]
    /\ ship' = [ship EXCEPT !.step = "stored"]
    /\ UNCHANGED <<now, dirty, closed, file, archiver, stats, health>>

Remove ==
    /\ ship.step = "stored"
    /\ file' = [file EXCEPT ![ship.segment] = NoFile]
    /\ ship' = NoShip
    /\ UNCHANGED <<now, dirty, closed, archiver, stats, offhost, health>>

ShipFails ==
    /\ ship.step # "idle"
    /\ ship' = NoShip
    /\ UNCHANGED <<now, dirty, closed, file, archiver, stats, offhost, health>>

-----------------------------------------------------------------------------
\* wal-health
ListStore ==
    /\ health.step = "idle"
    /\ health' = [NoHealth EXCEPT !.step = "listed", !.store = offhost]
    /\ UNCHANGED <<now, dirty, closed, file, archiver, stats, offhost, ship>>

\* readArchiverState: WAL is pending when the current segment has been written to.
QueryArchiver ==
    /\ health.step = "listed"
    /\ health' = [health EXCEPT !.step = "queried", !.stats = stats, !.pending = (dirty # None)]
    /\ UNCHANGED <<now, dirty, closed, file, archiver, stats, offhost, ship>>

\* Mutant: a failure counts only while nothing has ever been archived.
Failing_UntilFirst(st) == st.lastFailed # None /\ st.lastArchived = None

\* A failure counts until a later success.
Failing(st) ==
    /\ st.lastFailed # None
    /\ st.lastArchived = None \/ st.lastArchived <= st.lastFailed

Recent(t, limit) == now <= t + limit

\* evaluateWalArchiveHealth: the age of the newest segment, here and off-host,
\* counts only while WAL is pending.
IsHealthy(store, st, pending) ==
    LET objects == {s \in Segment : store[s].content # "none"} IN
    /\ st.archived > 0 /\ ~Failing(st)
    /\ pending => Recent(st.lastArchived, MaxAge)
    /\ \A s \in Spool : Recent(file[s].at, MaxAge)
    /\ objects # {}
    /\ pending => \E s \in objects : Recent(store[s].at, 2 * MaxAge)

ReadSpool ==
    /\ health.step = "queried"
    /\ health' = [NoHealth EXCEPT !.verdict =
          IF IsHealthy(health.store, health.stats, health.pending) THEN "healthy" ELSE "unhealthy"]
    /\ UNCHANGED <<now, dirty, closed, file, archiver, stats, offhost, ship>>

-----------------------------------------------------------------------------
\* In a unit the archiver gets through the segments at hand or fails at one,
\* and archive_timeout is kept.
Tick ==
    /\ now < MaxTime /\ health.step = "idle"
    /\ ArchiverHangs \/ Ready = {} \/ archiver.failed
    /\ dirty # None => now < dirty + ArchiveTimeout
    /\ now' = now + 1
    /\ archiver' = [archiver EXCEPT !.failed = FALSE]
    /\ UNCHANGED <<dirty, closed, file, stats, offhost, ship, health>>

Next ==
    \/ Write \/ Switch \/ Begin \/ Copy \/ Publish \/ Mark \/ CopyFails \/ Crash
    \/ Read \/ Store \/ Remove \/ ShipFails
    \/ ListStore \/ QueryArchiver \/ ReadSpool \/ Tick

Spec == Init /\ [][Next]_vars

-----------------------------------------------------------------------------
\* A segment that PostgreSQL has been told is archived, and so may recycle, is
\* whole in the spool or off-host: ship-wal never takes a file that cp is still
\* writing, and deletes none that it has not stored (docs/pitr.md:322-324, and
\* the chmod of the archive command, which comes last).
ArchiveIsWhole ==
    \A s \in Segment : s < archiver.done =>
        file[s].state = "whole" \/ offhost[s].content = "whole"

\* A healthy verdict bounds what a loss of the host would lose (the promise
\* above evaluateWalArchiveHealth).  A segment closed longer ago than the age
\* limit, and the unit the archiver takes, is off-host and whole; or it has been
\* in the spool for less than the limit; or it is in the backlog of an archiver
\* found to have recovered within this unit.
Recoverable ==
    \A s \in Segment : closed[s] # None /\ closed[s] + MaxAge + 1 < now =>
        \/ offhost[s].content = "whole"
        \/ file[s].state = "whole" /\ Recent(file[s].at, MaxAge)
        \/ health.stats.lastArchived = now /\ s >= archiver.done
JudgesRightly == health.step = "queried" /\ health'.verdict = "healthy" => Recoverable
HealthyIsRecoverable == [][JudgesRightly]_vars
=============================================================================
