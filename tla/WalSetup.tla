------------------------------ MODULE WalSetup -------------------------------
(***************************************************************************)
(* pg-enable-wal-archiving.sh against a running PostgreSQL: the checks of  *)
(* the archive directory, its ownership, the settings, the reload and the  *)
(* verification that a segment reaches the spool, while the server         *)
(* archives by what it has loaded so far, the application writes and the   *)
(* operator restarts or recreates the container.  How the spool is drained *)
(* afterwards is in WalArchive.                                            *)
(***************************************************************************)
EXTENDS Naturals

CONSTANTS
    None,
    Found,       \* what the script may find configured: "nothing", "this", "other"
    MaxSegment,  \* segments explored
    MaxPolls     \* polls of the archiver's counter, one a second in the code

VARIABLES
    directory,  \* of the spool in the container: "missing", "layer" or "mount"
    owned,      \* postgres and the shipper may both use it
    auto,       \* postgresql.auto.conf: archive_mode and where archive_command copies to
    mode,       \* archive_mode of the running server
    loaded,     \* the archive_command of the archiver process
    dirty,      \* WAL was written since the last switch
    closed,     \* segments closed so far
    archived,   \* pg_stat_archiver.archived_count: segments archived so far, oldest first
    copying,    \* the command at work on the next segment, or None
    spool,      \* segments in the directory
    run         \* the script

vars   == <<directory, owned, auto, mode, loaded, dirty, closed, archived, copying, spool, run>>
server == <<mode, loaded, dirty, closed, archived, copying, spool>>

Destination == {"nothing", "spool", "other"}
Settings == [mode : BOOLEAN, to : Destination]
Before(f) == CASE f = "nothing" -> [mode |-> FALSE, to |-> "nothing"]
               [] f = "this"    -> [mode |-> TRUE, to |-> "spool"]
               [] f = "other"   -> [mode |-> TRUE, to |-> "other"]
\* heard is history: at the count the archiver was done with any older command.
Idle == [step |-> "idle", confirm |-> FALSE, was |-> FALSE, before |-> 0, polls |-> 0,
         heard |-> FALSE]

TypeOK ==
    /\ directory \in {"missing", "layer", "mount"} /\ {owned, mode, dirty} \subseteq BOOLEAN
    /\ auto \in Settings /\ loaded \in Destination /\ copying \in Destination \cup {None}
    /\ archived \in 0 .. closed /\ closed \in 0 .. MaxSegment /\ spool \subseteq 1 .. MaxSegment
    /\ run.step \in {"idle", "mount", "own", "settings", "reload", "restart?", "count", "switch",
                     "poll", "active", "restart needed", "died", "reported"}

Init ==
    /\ directory \in {"missing", "layer", "mount"} /\ owned \in BOOLEAN
    /\ auto \in {Before(f) : f \in Found} /\ mode = auto.mode /\ loaded = auto.to
    /\ dirty \in BOOLEAN /\ closed = 0 /\ archived = 0 /\ copying = None
    /\ spool = {} /\ run = Idle

-----------------------------------------------------------------------------
(* The script *)

At(step)   == run.step = step
Goto(step) == run' = [run EXCEPT !.step = step]

\* The container is running, or the script dies at once.
Start ==
    /\ run.step \in {"idle", "restart needed", "died", "reported"}
    /\ \E confirm \in BOOLEAN : run' = [Idle EXCEPT !.step = "mount", !.confirm = confirm]
    /\ UNCHANGED <<directory, owned, auto, server>>

\* Mutant: a directory that exists will do.
Persistent_Exists == directory # "missing"

\* A directory in the container's writable layer is gone at the next recreate.
Persistent == directory = "mount"

CheckMount ==
    /\ At("mount")
    /\ Goto(IF Persistent THEN "own" ELSE "died")
    /\ UNCHANGED <<directory, owned, auto, server>>

PrepareSpool ==
    /\ At("own")
    /\ IF run.confirm THEN owned' = TRUE /\ Goto("settings")
       ELSE Goto("reported") /\ UNCHANGED owned
    /\ UNCHANGED <<directory, auto, server>>

\* SHOW archive_mode, then ALTER SYSTEM.
WriteSettings ==
    /\ At("settings")
    /\ auto' = [mode |-> TRUE, to |-> "spool"]
    /\ run' = [run EXCEPT !.step = "reload", !.was = mode]
    /\ UNCHANGED <<directory, owned, server>>

\* pg_reload_conf returns once the postmaster is told; archive_mode needs a restart.
Reload ==
    /\ At("reload")
    /\ Goto(IF run.was THEN "count" ELSE "restart needed")
    /\ UNCHANGED <<directory, owned, auto, server>>

CountBefore ==
    /\ At("count")
    /\ run' = [run EXCEPT !.step = "switch", !.before = archived,
                          !.heard = loaded = "spool" /\ copying \in {None, "spool"}]
    /\ UNCHANGED <<directory, owned, auto, server>>

\* A switch closes the segment if anything was written to it.
SwitchWal ==
    /\ At("switch")
    /\ dirty => closed < MaxSegment
    /\ closed' = IF dirty THEN closed + 1 ELSE closed
    /\ dirty' = FALSE
    /\ Goto("poll")
    /\ UNCHANGED <<directory, owned, auto, mode, loaded, archived, copying, spool>>

\* Mutant: any archived segment will do.
Advanced_Any == archived > 0

Advanced == archived > run.before

Poll ==
    /\ At("poll")
    /\ IF Advanced THEN Goto("active")
       ELSE IF run.polls = MaxPolls THEN Goto("died")
       ELSE run' = [run EXCEPT !.polls = @ + 1]
    /\ UNCHANGED <<directory, owned, auto, server>>

\* A docker exec or a query fails, under set -e.
Die ==
    /\ run.step \notin {"idle", "active", "restart needed", "died", "reported"}
    /\ Goto("died")
    /\ UNCHANGED <<directory, owned, auto, server>>

-----------------------------------------------------------------------------
(* PostgreSQL and its operator *)

WriteRows ==
    /\ ~dirty /\ dirty' = TRUE
    /\ UNCHANGED <<directory, owned, auto, mode, loaded, closed, archived, copying, spool, run>>

\* archive_timeout, or a full segment.
CloseSegment ==
    /\ dirty /\ closed < MaxSegment
    /\ closed' = closed + 1 /\ dirty' = FALSE
    /\ UNCHANGED <<directory, owned, auto, mode, loaded, archived, copying, spool, run>>

\* The archiver hears of the reload between two segments.
HearReload ==
    /\ mode /\ copying = None /\ loaded # auto.to
    /\ run.step \notin {"idle", "mount", "own", "settings", "reload"}
    /\ loaded' = auto.to
    /\ UNCHANGED <<directory, owned, auto, mode, dirty, closed, archived, copying, spool, run>>

StartCopy ==
    /\ mode /\ copying = None /\ archived < closed
    /\ copying' = loaded
    /\ UNCHANGED <<directory, owned, auto, mode, loaded, dirty, closed, archived, spool, run>>

\* Whether the command can do its work.
Works == copying = "other" \/ (copying = "spool" /\ directory # "missing" /\ owned)

EndCopy ==
    /\ copying # None /\ copying' = None
    /\ \/ /\ Works
          /\ archived' = archived + 1
          /\ spool' = IF copying = "spool" THEN spool \cup {archived + 1} ELSE spool
       \/ UNCHANGED <<archived, spool>>
    /\ UNCHANGED <<directory, owned, auto, mode, loaded, dirty, closed, run>>

\* The settings are in the data volume; an open segment of work is closed or not.
Restart ==
    /\ mode' = auto.mode /\ loaded' = auto.to /\ copying' = None
    /\ run.step \in {"idle", "active", "restart needed", "died", "reported"}
    /\ UNCHANGED <<directory, owned, auto, dirty, closed, archived, spool, run>>

\* docker compose up, with or without the mount the script asks for.
Recreate ==
    /\ run.step \in {"idle", "active", "restart needed", "died", "reported"}
    /\ mode' = auto.mode /\ loaded' = auto.to /\ copying' = None
    /\ \/ directory = "mount" /\ UNCHANGED <<directory, owned, spool>>
       \/ /\ directory # "mount" /\ directory' \in {"missing", "layer", "mount"}
          /\ owned' = FALSE /\ spool' = {}
    /\ UNCHANGED <<auto, dirty, closed, archived, run>>

Next ==
    \/ Start \/ CheckMount \/ PrepareSpool \/ WriteSettings \/ Reload \/ CountBefore
    \/ SwitchWal \/ Poll \/ Die
    \/ WriteRows \/ CloseSegment \/ HearReload \/ StartCopy \/ EndCopy \/ Restart \/ Recreate

Spec == Init /\ [][Next]_vars

-----------------------------------------------------------------------------
\* "Continuous WAL archiving is ACTIVE" is printed only when a segment archived
\* since the count was taken is in the spool, and it is still there whatever the
\* operator does to the container, provided the archiver had heard of the reload
\* by the count: one that still copies elsewhere moves the counter too.  (Nothing
\* drains the spool here.)
ActiveMeansArchiving ==
    At("active") /\ run.heard => \E s \in spool : s > run.before /\ s <= archived
=============================================================================
