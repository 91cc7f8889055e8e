---------------------------- MODULE PointInTime ----------------------------
(***************************************************************************)
(* Point-in-time recovery: backup-pitr-rehearsal.sh, which writes to the   *)
(* live database, recovers another from off-host storage and puts the live *)
(* one back; and db-pitr-drill.sh, the same on a source of its own whose   *)
(* archive the target reads directly.  Several rehearsals may overlap, and *)
(* the timers of the backup programme run beside them.                     *)
(*                                                                         *)
(* The WAL is the sequence of committed states.  A recovery to a time      *)
(* replays it from a base backup and needs to see a commit after that time *)
(* to stop; if the archive ends first, the server does not come up.        *)
(***************************************************************************)
EXTENDS Naturals, Sequences

CONSTANTS
    None,
    Operator,    \* rehearsals, one each
    OffHost,     \* the rehearsal, not the drill
    RowsAtStart, \* whether the live database may hold, or lack, the project
    MaxOthers,   \* other projects
    MaxTimed,    \* the timer takes no base backup beyond this segment
    MaxLog

Database == [marker : Operator \cup {None}, post : BOOLEAN, row : BOOLEAN, others : 0 .. MaxOthers]

VARIABLES
    log,        \* states committed, each with its WAL segment
    segment,    \* the segment being written
    base,       \* how much of the log the newest stored base backup holds
    run,        \* each rehearsal
    recovered,  \* the state of each recovered database
    disturbed   \* a run was killed, or a statement on the live database not done or not answered

vars == <<log, segment, base, run, recovered, disturbed>>

Live == log[Len(log)].db
Projects(db) == db.others + (IF db.row THEN 1 ELSE 0)

TypeOK ==
    /\ \A i \in 1 .. Len(log) : log[i].db \in Database /\ log[i].segment \in 1 .. segment
    /\ base \in 0 .. Len(log)
    /\ \A o \in Operator :
          /\ run[o].step \in {"new", "base", "select", "marker", "count", "switch", "target",
                              "post", "delete", "recount", "fetch", "recover", "verify",
                              "passed", "failed", "undone", "over"}
          /\ run[o].deleted \in BOOLEAN
    /\ recovered \in [Operator -> Database \cup {None}]
    /\ disturbed \in BOOLEAN

RunAt(step) == [step |-> step, base |-> 0, projects |-> 0, target |-> 0,
                deleted |-> FALSE, fetched |-> 0]

Init ==
    /\ \E row \in RowsAtStart :
          log = <<[db |-> [marker |-> None, post |-> FALSE, row |-> row, others |-> 0],
                   segment |-> 1]>>
    /\ segment = 1 /\ base = 0
    /\ run = [o \in Operator |-> RunAt("new")]
    /\ recovered = [o \in Operator |-> None]
    /\ disturbed = FALSE

Commit(db) ==
    /\ Len(log) < MaxLog
    /\ log' = Append(log, [db |-> db, segment |-> segment])

At(o, s)   == run[o].step = s
Goto(o, s) == run' = [run EXCEPT ![o].step = s]
Check(o, condition, next) == Goto(o, IF condition THEN next ELSE "failed")

wal == <<segment, base>>

-----------------------------------------------------------------------------
\* Beside the rehearsals, projects are created and the timer takes base backups.
OtherProject ==
    /\ OffHost /\ Live.others < MaxOthers
    /\ Commit([Live EXCEPT !.others = @ + 1])
    /\ UNCHANGED <<wal, run, recovered, disturbed>>

\* pg_basebackup ends in a segment of its own.
BaseBackup == base' = Len(log) /\ segment' = segment + 1

BaseOnTimer ==
    /\ OffHost /\ base < Len(log) /\ segment <= MaxTimed /\ BaseBackup
    /\ UNCHANGED <<log, run, recovered, disturbed>>

-----------------------------------------------------------------------------
\* 2: archiving is on.  The drill also waits for a first archived segment.
CheckArchiving(o) ==
    /\ At(o, "new") /\ Goto(o, "base")
    /\ UNCHANGED <<log, wal, recovered, disturbed>>

\* 3: a base backup, unless an existing one is to be used; then the newest stored.
TakeBase(o) ==
    /\ At(o, "base") /\ Goto(o, "select")
    /\ \/ BaseBackup
       \/ OffHost /\ UNCHANGED <<segment, base>>
    /\ UNCHANGED <<log, recovered, disturbed>>

SelectBase(o) ==
    /\ At(o, "select")
    /\ run' = [run EXCEPT ![o].base = base, ![o].step = IF base > 0 THEN "marker" ELSE "failed"]
    /\ UNCHANGED <<log, wal, recovered, disturbed>>

\* 4: the marker carries the identity of the run.
WriteMarker(o) ==
    /\ At(o, "marker") /\ Goto(o, "count")
    /\ Commit([Live EXCEPT !.marker = o])
    /\ UNCHANGED <<wal, recovered, disturbed>>

CountProjects(o) ==
    /\ At(o, "count")
    /\ run' = [run EXCEPT ![o].projects = Projects(Live), ![o].step = "switch"]
    /\ UNCHANGED <<log, wal, recovered, disturbed>>

SwitchWal(o) ==
    /\ At(o, "switch") /\ Goto(o, "target")
    /\ segment' = segment + 1
    /\ UNCHANGED <<log, base, recovered, disturbed>>

\* 5: now(), and a pause before anything else is written by this run.
RecordTarget(o) ==
    /\ At(o, "target")
    /\ run' = [run EXCEPT ![o].target = Len(log), ![o].step = "post"]
    /\ UNCHANGED <<log, wal, recovered, disturbed>>

\* 6: what the recovery must undo.
WritePost(o) ==
    /\ At(o, "post") /\ Goto(o, "delete")
    /\ Commit([Live EXCEPT !.post = TRUE])
    /\ UNCHANGED <<wal, recovered, disturbed>>

DeleteRow(o) ==
    /\ At(o, "delete")
    /\ run' = [run EXCEPT ![o].deleted = TRUE, ![o].step = "recount"]
    /\ Commit([Live EXCEPT !.row = FALSE])
    /\ UNCHANGED <<wal, recovered, disturbed>>

\* The row is gone and the answer of docker exec is lost: the script ends without
\* having noted the deletion.
DeleteUnanswered(o) ==
    /\ At(o, "delete") /\ OffHost /\ Goto(o, "failed")
    /\ Commit([Live EXCEPT !.row = FALSE])
    /\ disturbed' = TRUE
    /\ UNCHANGED <<wal, recovered>>

Recount(o) ==
    /\ At(o, "recount")
    /\ Check(o, Projects(Live) # run[o].projects, "fetch")
    /\ segment' = segment + 1
    /\ UNCHANGED <<log, base, recovered, disturbed>>

\* What fetch-wal may find in the store: segments are archived and shipped in
\* order, and how far both have come is not waited for.
Stored == 0 .. segment - 1

\* 7, 8: ship-wal moves what the archiver has copied by then (the drill waits two
\* seconds instead), and every stored segment is fetched.
FetchWal(o) ==
    /\ At(o, "fetch")
    /\ \E n \in Stored :
          run' = [run EXCEPT ![o].fetched = n, ![o].step = "recover"]
    /\ UNCHANGED <<log, wal, recovered, disturbed>>

-----------------------------------------------------------------------------
\* Mutant: the base backup is looked up again when it is fetched.
From_Newest(o) == base

From(o) == run[o].base

\* 9, 10: the target starts from the base backup with a recovery target time; it
\* promotes if it reaches a commit after the target.
Reaches(o) ==
    /\ From(o) <= run[o].target
    /\ Len(log) > run[o].target
    /\ log[run[o].target + 1].segment <= run[o].fetched

Recover(o) ==
    /\ At(o, "recover")
    /\ recovered' = [recovered EXCEPT ![o] = IF Reaches(o) THEN log[run[o].target].db ELSE None]
    /\ run' = [run EXCEPT ![o].base = From(o), ![o].step = IF Reaches(o) THEN "verify" ELSE "failed"]
    /\ UNCHANGED <<log, wal, disturbed>>

\* 11: the marker of this run, no post-target row, the project, the count.
AtTarget(o, db) ==
    /\ db.marker = o
    /\ ~db.post
    /\ db.row
    /\ Projects(db) = run[o].projects

Verify(o) ==
    /\ At(o, "verify")
    /\ Check(o, AtTarget(o, recovered[o]), "passed")
    /\ UNCHANGED <<log, wal, recovered, disturbed>>

Fail(o) ==
    /\ run[o].step \notin {"passed", "failed", "undone", "over"} /\ Goto(o, "failed")
    /\ UNCHANGED <<log, wal, recovered, disturbed>>

-----------------------------------------------------------------------------
\* restore_source_state, on every exit, before the target is removed.  Mutant: only a run that fails undoes.
Undoes_OnFailure(o) == run[o].deleted /\ At(o, "failed")

Undoes(o) == run[o].deleted

\* The insert does nothing where the row exists; when it fails, the script says so.
\* The row is there or not: its columns are not compared.
UndoDelete(o) ==
    /\ run[o].step \in {"passed", "failed"}
    /\ run' = [run EXCEPT ![o] = RunAt("undone")]
    /\ recovered' = [recovered EXCEPT ![o] = None]
    /\ IF OffHost /\ Undoes(o)
       THEN \/ Commit([Live EXCEPT !.row = TRUE]) /\ UNCHANGED disturbed
            \/ UNCHANGED log /\ disturbed' = TRUE
       ELSE UNCHANGED <<log, disturbed>>
    /\ UNCHANGED wal

\* The failure of the second statement is not looked at.
UndoRows(o) ==
    /\ At(o, "undone") /\ Goto(o, "over")
    /\ IF OffHost
       THEN \/ Commit([Live EXCEPT !.marker = None, !.post = FALSE]) /\ UNCHANGED disturbed
            \/ UNCHANGED log /\ disturbed' = TRUE
       ELSE UNCHANGED <<log, disturbed>>
    /\ UNCHANGED <<wal, recovered>>

\* Killed: the trap does not run.
Kill(o) ==
    /\ OffHost /\ run[o].step \notin {"new", "over"}
    /\ run' = [run EXCEPT ![o] = RunAt("over")]
    /\ recovered' = [recovered EXCEPT ![o] = None]
    /\ disturbed' = TRUE
    /\ UNCHANGED <<log, wal>>

Step(o) ==
    \/ CheckArchiving(o) \/ TakeBase(o) \/ SelectBase(o) \/ WriteMarker(o) \/ CountProjects(o)
    \/ SwitchWal(o) \/ RecordTarget(o) \/ WritePost(o) \/ DeleteRow(o) \/ DeleteUnanswered(o)
    \/ Recount(o) \/ FetchWal(o) \/ Recover(o) \/ Verify(o)
    \/ Fail(o) \/ UndoDelete(o) \/ UndoRows(o) \/ Kill(o)

Next ==
    \/ OtherProject \/ BaseOnTimer
    \/ \E o \in Operator : Step(o)

Spec == Init /\ [][Next]_vars

-----------------------------------------------------------------------------
\* A run that passes has recovered the database as it was at the target time, and
\* its marker came out of archived WAL: the base backup it started from does not
\* hold it (db-pitr-drill.sh:230-236, backup-pitr-rehearsal.sh:206-213).
PassProvesReplay ==
    \A o \in Operator : At(o, "passed") =>
        /\ recovered[o] = log[run[o].target].db
        /\ recovered[o].marker = o
        /\ log[run[o].base].db.marker # o

NobodyRuns == \A o \in Operator : run[o].step \in {"new", "over"}
AsFound    == Live.row = log[1].db.row /\ Live.marker = None /\ ~Live.post

\* However the rehearsals overlapped and wherever they failed, the live database
\* is as it was found once they are over (backup-pitr-rehearsal.sh:119-120), unless
\* one of them was killed or one of the statements concerned was not carried out or
\* not answered.  It needs the project to be there: a run inserts one that was not.
LiveComesBack == NobodyRuns /\ ~disturbed => AsFound
=============================================================================
