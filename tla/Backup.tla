------------------------------- MODULE Backup -------------------------------
(***************************************************************************)
(* The off-host backup programme (src/tooling/backup-ops.mjs): a logical   *)
(* dump and a physical base backup, each stored as an encrypted artifact   *)
(* and then a metadata document; the WAL segments PostgreSQL spools, moved *)
(* off-host one at a time; and the prune that applies the lifecycle.  Each *)
(* command is a process of its own, started by a timer or by an operator,  *)
(* and may be killed between any two calls to the store.                   *)
(*                                                                         *)
(* Time is counted in days.  A recovery point is named by the time it was  *)
(* started, as its artifact is.                                            *)
(***************************************************************************)
EXTENDS Naturals, FiniteSets, FiniteSetsExt

CONSTANTS
  Kind,           \* the kinds of backup taken, of "logical" and "base"
  Pruner,         \* executions of the prune command
  BackupDays,     \* retention.logicalDays
  WalDays,        \* retention.walDays
  Minimum,        \* retention.logicalMinimum
  None,
  JobDays,        \* bound: the days one command may take
  MaxTime,        \* bound: the last day
  MaxSegment      \* bound: the last WAL segment written

VARIABLES
  now,
  segment,        \* the WAL segment the database writes
  spool,          \* the segments archive_command has copied to the spool
  wal,            \* wal[s]: the day segment s was last stored; None: not stored
  stored,         \* stored[k]: the encrypted artifacts in the store
  described,      \* described[k]: the metadata documents in the store
  first,          \* history, first[t]: the segment being written when base backup t started
  ship,           \* ship[k]: the command that takes and stores a backup of kind k
  walShip,        \* the ship-wal command
  prune           \* prune[p]: an execution of the prune command

vars == <<now, segment, spool, wal, stored, described, first, ship, walShip, prune>>
files == <<spool, wal, stored, described>>

Time == 0..MaxTime
Segment == 0..MaxSegment
Point == Kind \X Time

Idle == [step |-> "idle", at |-> 0]
NotPruning == [step |-> "idle", at |-> 0, points |-> {}, doomed |-> {}, doomedWal |-> {}]

TypeOK ==
  /\ now \in Time /\ segment \in 0..MaxSegment + 1
  /\ spool \subseteq Segment
  /\ wal \in [Segment -> Time \cup {None}]
  /\ stored \in [Kind -> SUBSET Time] /\ described \in [Kind -> SUBSET Time]
  /\ first \in [Time -> 0..MaxSegment + 1]
  /\ ship \in [Kind -> [step : {"idle", "taken", "stored"}, at : Time]]
  /\ walShip \in [step : {"idle", "next", "stored"}, at : Time, todo : SUBSET Segment]
  /\ \A p \in Pruner :
       /\ prune[p].step \in {"idle", "artifact", "metadata", "wal"}
       /\ prune[p].points \subseteq Point /\ prune[p].doomed \subseteq Point
       /\ prune[p].doomedWal \subseteq Segment

Init ==
  /\ now = 0 /\ segment = 0 /\ spool = {}
  /\ wal = [s \in Segment |-> None]
  /\ stored = [k \in Kind |-> {}] /\ described = [k \in Kind |-> {}]
  /\ first = [t \in Time |-> 0]
  /\ ship = [k \in Kind |-> Idle]
  /\ walShip = [step |-> "idle", at |-> 0, todo |-> {}]
  /\ prune = [p \in Pruner |-> NotPruning]

-----------------------------------------------------------------------------
(* ship-backup and ship-base-backup                                        *)

(* The dump, or the base backup, is taken into the backup directory.  Its  *)
(* name carries the time, and an existing file is never overwritten.       *)
Take(k) ==
  /\ ship[k].step = "idle" /\ now \notin stored[k] \cup described[k]
  /\ ship' = [ship EXCEPT ![k] = [step |-> "taken", at |-> now]]
  /\ first' = IF k = "base" THEN [first EXCEPT ![now] = segment] ELSE first
  /\ UNCHANGED <<now, segment, files, walShip, prune>>

(* A bug: the metadata goes first.                                         *)
Upload_MetadataFirst(k) ==
  /\ ship[k].step = "taken"
  /\ described' = [described EXCEPT ![k] = @ \cup {ship[k].at}]
  /\ ship' = [ship EXCEPT ![k].step = "stored"]
  /\ UNCHANGED <<now, segment, spool, wal, stored, first, walShip, prune>>

(* encryptAndStore: the artifact is stored and its HEAD answered, and only *)
(* then is the metadata written.                                           *)
Upload(k) ==
  /\ ship[k].step = "taken"
  /\ stored' = [stored EXCEPT ![k] = @ \cup {ship[k].at}]
  /\ ship' = [ship EXCEPT ![k].step = "stored"]
  /\ UNCHANGED <<now, segment, spool, wal, described, first, walShip, prune>>

Describe(k) ==
  /\ ship[k].step = "stored"
  /\ described' = [described EXCEPT ![k] = @ \cup {ship[k].at}]
  /\ ship' = [ship EXCEPT ![k] = Idle]
  /\ UNCHANGED <<now, segment, spool, wal, stored, first, walShip, prune>>

(* The command fails (a dump, a request or the read-back), or is killed:   *)
(* what it stored stays, and no later run takes it up again.               *)
ShipFails(k) ==
  /\ ship[k].step # "idle"
  /\ ship' = [ship EXCEPT ![k] = Idle]
  /\ first' = IF k = "base" /\ ship[k].step = "taken"
              THEN [first EXCEPT ![ship[k].at] = 0] ELSE first
  /\ UNCHANGED <<now, segment, files, walShip, prune>>

-----------------------------------------------------------------------------
(* ship-wal                                                                *)

(* PostgreSQL finishes a segment and archive_command copies it.            *)
SwitchSegment ==
  /\ segment <= MaxSegment
  /\ spool' = spool \cup {segment}
  /\ segment' = segment + 1
  /\ UNCHANGED <<now, wal, stored, described, first, ship, walShip, prune>>

ReadSpool ==
  /\ walShip.step = "idle" /\ spool # {}
  /\ walShip' = [step |-> "next", at |-> now, todo |-> spool]
  /\ UNCHANGED <<now, segment, files, first, ship, prune>>

StoreSegment ==
  /\ walShip.step = "next" /\ walShip.todo # {}
  /\ wal' = [wal EXCEPT ![Min(walShip.todo)] = now]
  /\ walShip' = [walShip EXCEPT !.step = "stored"]
  /\ UNCHANGED <<now, segment, spool, stored, described, first, ship, prune>>

(* Only a segment whose HEAD answered leaves the spool.                    *)
RemoveSegment ==
  /\ walShip.step = "stored" /\ wal[Min(walShip.todo)] # None
  /\ spool' = spool \ {Min(walShip.todo)}
  /\ walShip' = [walShip EXCEPT !.step = "next", !.todo = @ \ {Min(@)}]
  /\ UNCHANGED <<now, segment, wal, stored, described, first, ship, prune>>

(* The spool is drained, or the run fails or is killed.                    *)
WalShipEnds ==
  /\ walShip.step # "idle"
  /\ walShip' = [step |-> "idle", at |-> 0, todo |-> {}]
  /\ UNCHANGED <<now, segment, files, first, ship, prune>>

-----------------------------------------------------------------------------
(* prune                                                                   *)

At(p, step) == prune[p].step = step

Taken(points, k) == {t \in Time : <<k, t>> \in points}
Newest(n, times) == {t \in times : Cardinality({u \in times : u > t}) < n}
Kept(k) == IF k = "logical" THEN Minimum ELSE 1

(* slice(minimum).filter(older than the window), newest first.             *)
Expendable(points) ==
  {p \in points : /\ p[2] \notin Newest(Kept(p[1]), Taken(points, p[1]))
                  /\ p[2] + BackupDays < now}

(* readCatalog: a recovery point is a metadata document, whether or not    *)
(* its artifact is there.  The kinds are listed by separate requests; they *)
(* are written by different commands, so one listing stands for both.      *)
(* What is expendable is decided at once, on what was listed.              *)
ReadCatalog(p) ==
  /\ At(p, "idle")
  /\ LET points == UNION {{k} \X described[k] : k \in Kind}
     IN prune' = [prune EXCEPT ![p] = [step |-> "artifact", at |-> now, doomedWal |-> {},
                     points |-> points \ Expendable(points), doomed |-> Expendable(points)]]
  /\ UNCHANGED <<now, segment, files, first, ship, walShip>>

(* deletePoint: the artifact, then the metadata; the logical backups       *)
(* first.  A DELETE of what is already gone succeeds.                      *)
NextDoomed(p) ==
  LET logical == Taken(prune[p].doomed, "logical")
      base    == Taken(prune[p].doomed, "base")
  IN IF logical # {} THEN <<"logical", Max(logical)>> ELSE <<"base", Max(base)>>

DeleteArtifact(p) ==
  /\ At(p, "artifact") /\ prune[p].doomed # {}
  /\ LET d == NextDoomed(p) IN stored' = [stored EXCEPT ![d[1]] = @ \ {d[2]}]
  /\ prune' = [prune EXCEPT ![p].step = "metadata"]
  /\ UNCHANGED <<now, segment, spool, wal, described, first, ship, walShip>>

DeleteMetadata(p) ==
  /\ At(p, "metadata")
  /\ LET d == NextDoomed(p)
     IN /\ described' = [described EXCEPT ![d[1]] = @ \ {d[2]}]
        /\ first' = IF d[1] = "base" THEN [first EXCEPT ![d[2]] = 0] ELSE first
        /\ prune' = [prune EXCEPT ![p].step = "artifact", ![p].doomed = @ \ {d}]
  /\ UNCHANGED <<now, segment, spool, wal, stored, ship, walShip>>

(* A bug: WAL is cut at its own window, whatever a base backup needs.       *)
OlderThanCutoff_WindowOnly(t, points) == t + WalDays < now

(* The cutoff is the earlier of the WAL window and the oldest base backup  *)
(* that survives; the subtraction is written as an addition, now being a   *)
(* small natural number here.                                              *)
OlderThanCutoff(t, points) ==
  /\ t + WalDays < now
  /\ \A b \in Taken(points, "base") : t < b

ListWal(p) ==
  /\ At(p, "artifact") /\ prune[p].doomed = {}
  /\ LET old == {s \in Segment : wal[s] # None /\ OlderThanCutoff(wal[s], prune[p].points)}
     IN prune' = [prune EXCEPT ![p].step = "wal", ![p].doomedWal = old]
  /\ UNCHANGED <<now, segment, files, first, ship, walShip>>

DeleteSegment(p) ==
  /\ At(p, "wal") /\ prune[p].doomedWal # {}
  /\ wal' = [wal EXCEPT ![Min(prune[p].doomedWal)] = None]
  /\ prune' = [prune EXCEPT ![p].doomedWal = @ \ {Min(@)}]
  /\ UNCHANGED <<now, segment, spool, stored, described, first, ship, walShip>>

(* The last segment is gone, or a request fails, or the process dies.      *)
PruneEnds(p) ==
  /\ ~At(p, "idle")
  /\ prune' = [prune EXCEPT ![p] = NotPruning]
  /\ UNCHANGED <<now, segment, files, first, ship, walShip>>

-----------------------------------------------------------------------------
(* A command takes at most JobDays.                                        *)
Running == {ship[k].at : k \in {j \in Kind : ship[j].step # "idle"}}
             \cup {prune[p].at : p \in {q \in Pruner : ~At(q, "idle")}}
             \cup (IF walShip.step = "idle" THEN {} ELSE {walShip.at})

Tick ==
  /\ now < MaxTime /\ \A t \in Running : now < t + JobDays
  /\ now' = now + 1
  /\ UNCHANGED <<segment, files, first, ship, walShip, prune>>

Next ==
  \/ \E k \in Kind : Take(k) \/ Upload(k) \/ Describe(k) \/ ShipFails(k)
  \/ SwitchSegment \/ ReadSpool \/ StoreSegment \/ RemoveSegment \/ WalShipEnds
  \/ \E p \in Pruner :
       \/ ReadCatalog(p)
       \/ DeleteArtifact(p) \/ DeleteMetadata(p) \/ ListWal(p) \/ DeleteSegment(p) \/ PruneEnds(p)
  \/ Tick

Spec == Init /\ [][Next]_vars

-----------------------------------------------------------------------------
(* Every base backup the catalog offers can be rolled forward: each        *)
(* segment finished since it started is off-host or still in the spool,    *)
(* whatever prunes ran meanwhile and wherever a run was cut short          *)
(* (commandPrune: "WAL is never pruned past the oldest RETAINED base       *)
(* backup"; commandShipWal: the spool is the only other copy).             *)
ChainIsUnbroken ==
  "base" \in Kind => \A t \in described["base"] \cap stored["base"] :
    \A s \in Segment : first[t] <= s /\ s < segment => s \in spool \/ wal[s] # None

(* The newest recovery points the catalog offers, as many as the lifecycle *)
(* promises to keep, are backed by an artifact: an operator who plans on   *)
(* one of them finds it (encryptAndStore's order; slice(minimum)).         *)
NewestAreReal ==
  \A k \in Kind : Newest(Kept(k), described[k]) \subseteq stored[k]

(* What the comment above encryptAndStore (backup-ops.mjs:227-229) says a  *)
(* metadata document must never do: advertise an object that is not there. *)
(* Refuted: prune deletes the artifact first.                              *)
MetadataIsReal == \A k \in Kind : described[k] \subseteq stored[k]
=============================================================================
