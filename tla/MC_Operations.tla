---------------------------- MODULE MC_Operations -----------------------------
(* A small instance of each component of Operations. *)
EXTENDS Operations, TLC

CONSTANTS
    a1, a2,        \* operators
    o1, o2, o3     \* releases

MCSymmetry == Permutations({a1, a2}) \cup Permutations({o1, o2})

MCMaxTimeOf    == [wal |-> 4, backup |-> 3]
\* Two WAL segments, three where archiving is set up; a dump needs none.
MCMaxSegmentOf == [wal |-> 1, setup |-> 3] @@ ("base backup" :> 1 @@ "dump" :> 0)

\* Three releases, the last with a migration of its own.
MCMigrationsOf == [r \in {o1, o2, o3} |-> IF r = o3 THEN 2 ELSE 1]

\* One required check, or two of two workflows.
MCGatesOf ==
    ("one gate" :> [workflows |-> {"ci"}, checks |-> {"validate"},
                    workflowOf |-> [validate |-> "ci"], runs |-> 3]
     @@ "two gates" :> [workflows |-> {"ci", "security"}, checks |-> {"validate", "scan"},
                        workflowOf |-> [validate |-> "ci", scan |-> "security"], runs |-> 2])

\* One rehearsal, while others write to the database; two at once, on a database
\* nobody else writes to; and the drill, on a database of its own.
MCReplayOf ==
    LET setup(operators, offHost, others, timed, length) ==
          [operators |-> operators, offHost |-> offHost, rows |-> {TRUE}, others |-> others,
           timed |-> timed, log |-> length]
    IN ("replay" :> setup({a1}, TRUE, 1, 3, 8) @@ "two replays" :> setup({a1, a2}, TRUE, 0, 0, 11)
        @@ "replay drill" :> setup({a1}, FALSE, 0, 0, 6))

\* Base backups, of which one is kept, or logical backups, of which two are.
MCBackupsOf == ("base backup" :> [kinds |-> {"base"}, minimum |-> 1]
                @@ "dump" :> [kinds |-> {"logical"}, minimum |-> 2])
=============================================================================
