------------------------------ MODULE Retention ------------------------------
(***************************************************************************)
(* The retention command: it sweeps the categories of its catalog in       *)
(* order, each in batches of one transaction, while the application goes   *)
(* on writing.  The verification, reset and pending registration tables    *)
(* have the statements of security_events and nothing refers to them: they *)
(* are left out.                                                           *)
(*                                                                         *)
(* A statement reads its snapshot first and takes its rows afterwards, so  *)
(* what another transaction commits in between counts: rows that are gone  *)
(* are skipped, and a foreign key that has a new row fails the statement.  *)
(***************************************************************************)
EXTENDS Naturals, FiniteSets

CONSTANTS
    Sweeper,      \* concurrent executions of the command
    Row, None,
    TableOf,      \* the table of each row
    SessionOf,    \* sessions row that a row refers to, or None
    EventDays, SessionDays,   \* retention windows
    BatchSize, MaxBatches,
    Selections,   \* what --category may select
    Lifetime,     \* of the rows the application inserts
    Start, MaxTime

Catalog   == <<"security_events", "refresh_tokens", "sessions">>
Category  == {Catalog[i] : i \in DOMAIN Catalog}
RowsOf(c) == {r \in Row : TableOf[r] = c}

\* The catalog is swept in its order, whatever the order of the selection.
Earlier(c, d) == \E i, j \in DOMAIN Catalog : i < j /\ Catalog[i] = c /\ Catalog[j] = d
First(cats)   == CHOOSE c \in cats : \A d \in cats : ~Earlier(d, c)

VARIABLES
    present,   \* rows of the database
    at,        \* created_at of a security event, expires_at of the other rows
    late,      \* sessions whose dead token a request has read, its event unwritten
    sweep,     \* state of each execution
    clock,
    disturbed  \* history: a connection failed, or an event came late

vars == <<present, at, late, sweep, clock, disturbed>>

Idle    == [step |-> "idle", mode |-> "dry-run", left |-> {}, now |-> 0, batches |-> 0,
            chosen |-> {}, tokens |-> {}, result |-> [c \in Category |-> "none"]]
Outcome == {"none", "counted", "clean", "truncated", "failed"}
Execution ==
    [step : {"idle", "select", "delete", "children", "parents"}, mode : {"dry-run", "apply"},
     left : SUBSET Category, now : 0 .. MaxTime, batches : 0 .. MaxBatches,
     chosen : SUBSET Row, tokens : SUBSET Row, result : [Category -> Outcome]]

TypeOK ==
    /\ present \subseteq Row /\ at \in [Row -> 0 .. MaxTime + Lifetime]
    /\ late \subseteq RowsOf("sessions")
    /\ sweep \in [Sweeper -> Execution]
    /\ clock \in Start .. MaxTime /\ disturbed \in BOOLEAN
    /\ \A r \in present : SessionOf[r] # None => SessionOf[r] \in present

\* Any backlog the application can have left behind: a token refers to its
\* session, an event was written while its session was there.
Init ==
    /\ present \in {p \in SUBSET Row : \A r \in p : SessionOf[r] # None => SessionOf[r] \in p}
    /\ at \in [Row -> 0 .. Start]
    /\ \A r \in Row \ present : at[r] = 0
    /\ late = {} /\ sweep = [w \in Sweeper |-> Idle]
    /\ clock = Start /\ disturbed = FALSE

-----------------------------------------------------------------------------
Window(c) == IF c = "security_events" THEN EventDays ELSE SessionDays

\* col < now - window, strictly.
PastWindow(r, now) == at[r] + Window(TableOf[r]) < now

\* Mutant: a session whose own window has passed goes, whatever refers to it.
Eligible_AgeOnly(c, now) == {r \in RowsOf(c) \cap present : PastWindow(r, now)}

\* A session waits until every row that refers to it is past its own window.
Eligible(c, now) ==
    {r \in RowsOf(c) \cap present :
        /\ PastWindow(r, now)
        /\ \A q \in present : SessionOf[q] = r => PastWindow(q, now)}

\* ORDER BY col LIMIT batchSize
Batches(rows) ==
    {b \in SUBSET rows :
        /\ Cardinality(b) <= BatchSize
        /\ b # rows => Cardinality(b) = BatchSize
        /\ \A r \in b, q \in rows \ b : at[r] <= at[q]}

Run(w, cats, mode) ==
    /\ sweep[w] = Idle
    /\ sweep' = [sweep EXCEPT ![w] = [Idle EXCEPT
          !.step = "select", !.mode = mode, !.now = clock,
          !.left = cats]]
    /\ UNCHANGED <<present, at, late, clock, disturbed>>

\* The category is done with outcome o; the next one starts, or the command ends.
NextCategory(w, o) ==
    LET x    == sweep[w]
        c    == First(x.left)
        left == x.left \ {c}
    IN  sweep' = [sweep EXCEPT ![w] =
            [step |-> IF left = {} THEN "idle" ELSE "select", mode |-> x.mode, left |-> left,
             now |-> x.now, batches |-> 0, chosen |-> {}, tokens |-> {},
             result |-> [x.result EXCEPT ![c] = o]]]

Count(w) ==
    /\ sweep[w].step = "select" /\ sweep[w].mode = "dry-run"
    /\ NextCategory(w, "counted")
    /\ UNCHANGED <<present, at, late, clock, disturbed>>

Select(w) ==
    /\ sweep[w].step = "select" /\ sweep[w].mode = "apply"
    /\ LET c == First(sweep[w].left) IN
       \E b \in Batches(Eligible(c, sweep[w].now)) :
          sweep' = [sweep EXCEPT ![w] = [@ EXCEPT !.chosen = b,
                       !.step = IF c = "sessions" /\ b # {} THEN "children" ELSE "delete"]]
    /\ UNCHANGED <<present, at, late, clock, disturbed>>

\* After a batch of n rows: a short one is the last, and so is the one at the cap.
Continue(w, n) ==
    IF n < BatchSize THEN NextCategory(w, "clean")
    ELSE IF sweep[w].batches + 1 = MaxBatches THEN NextCategory(w, "truncated")
    ELSE sweep' = [sweep EXCEPT ![w] = [@ EXCEPT !.step = "select",
                      !.batches = sweep[w].batches + 1, !.chosen = {}, !.tokens = {}]]

\* The rows that another execution has deleted meanwhile are not counted.
DeleteBatch(w) ==
    /\ sweep[w].step = "delete"
    /\ present' = present \ sweep[w].chosen
    /\ Continue(w, Cardinality(sweep[w].chosen \cap present))
    /\ UNCHANGED <<at, late, clock, disturbed>>

\* The transaction of a batch of sessions: the tokens, then the sessions.
DeleteChildren(w) ==
    /\ sweep[w].step = "children"
    /\ sweep' = [sweep EXCEPT ![w] = [@ EXCEPT !.step = "parents",
          !.tokens = {r \in RowsOf("refresh_tokens") \cap present : SessionOf[r] \in sweep[w].chosen}]]
    /\ UNCHANGED <<present, at, late, clock, disturbed>>

Referenced(w) == \E r \in present \ sweep[w].tokens : SessionOf[r] \in sweep[w].chosen

DeleteParents(w) ==
    /\ sweep[w].step = "parents" /\ ~Referenced(w)
    /\ present' = present \ (sweep[w].tokens \cup sweep[w].chosen)
    /\ Continue(w, Cardinality(sweep[w].chosen \cap present))
    /\ UNCHANGED <<at, late, clock, disturbed>>

\* SQLSTATE 23503: the transaction is rolled back, the category has failed.
DeleteRefused(w) ==
    /\ sweep[w].step = "parents" /\ Referenced(w)
    /\ NextCategory(w, "failed")
    /\ UNCHANGED <<present, at, late, clock, disturbed>>

\* A lost connection or a statement error in a category.
FailCategory(w) ==
    /\ sweep[w].step # "idle"
    /\ NextCategory(w, "failed") /\ disturbed' = TRUE
    /\ UNCHANGED <<present, at, late, clock>>

\* The process is killed; its transaction is rolled back.
Kill(w) ==
    /\ sweep[w].step # "idle"
    /\ sweep' = [sweep EXCEPT ![w] = Idle]
    /\ UNCHANGED <<present, at, late, clock, disturbed>>

-----------------------------------------------------------------------------
Insert(r, t) == present' = present \cup {r} /\ at' = [at EXCEPT ![r] = t]

Login(r) ==
    /\ r \notin present /\ TableOf[r] = "sessions"
    /\ Insert(r, clock + Lifetime)
    /\ UNCHANGED <<late, sweep, clock, disturbed>>

\* A rotation: only a session that has not expired gets another token.
Rotate(r) ==
    /\ r \notin present /\ TableOf[r] = "refresh_tokens"
    /\ SessionOf[r] \in present /\ at[SessionOf[r]] > clock
    /\ Insert(r, clock + Lifetime)
    /\ UNCHANGED <<late, sweep, clock, disturbed>>

\* A refresh with the token of an expired session: it reads the token, refuses,
\* and records an event that names the session.
PresentDeadToken(r) ==
    /\ r \in present /\ TableOf[r] = "refresh_tokens"
    /\ SessionOf[r] \notin late /\ at[SessionOf[r]] <= clock
    /\ late' = late \cup {SessionOf[r]}
    /\ UNCHANGED <<present, at, sweep, clock, disturbed>>

\* The insert fails on its foreign key when the session is gone.
RecordEvent(s, r) ==
    /\ s \in late /\ r \notin present /\ TableOf[r] = "security_events" /\ SessionOf[r] = s
    /\ late' = late \ {s} /\ disturbed' = TRUE
    /\ IF s \in present THEN Insert(r, clock) ELSE UNCHANGED <<present, at>>
    /\ UNCHANGED <<sweep, clock>>

Tick ==
    /\ clock < MaxTime
    /\ clock' = clock + 1
    /\ UNCHANGED <<present, at, late, sweep, disturbed>>

Next ==
    \/ Tick
    \/ \E r \in Row : \/ Login(r) \/ Rotate(r) \/ PresentDeadToken(r)
                      \/ \E s \in late : RecordEvent(s, r)
    \/ \E w \in Sweeper :
          \/ \E cats \in Selections, mode \in {"dry-run", "apply"} : Run(w, cats, mode)
          \/ Count(w) \/ Select(w) \/ DeleteBatch(w) \/ DeleteChildren(w)
          \/ DeleteParents(w) \/ DeleteRefused(w) \/ FailCategory(w) \/ Kill(w)

Spec == Init /\ [][Next]_vars

-----------------------------------------------------------------------------
\* A row goes only when its own window has passed, whichever category of the
\* command deletes it: a session never takes along a token that is retained
\* (deletableSessionsWhere; the token may have been rotated in the meantime).
DeletesOnlyAged == \A r \in present \ present' : PastWindow(r, clock)
OnlyAgedRowsGo  == [][DeletesOnlyAged]_vars

\* A category reported without "truncated" and without a failure has nothing
\* left that was eligible when the command started (the short batch of
\* runApplyCategory).  Two commands at once break it.
CleanMeansClean ==
    \A w \in Sweeper, c \in Category :
        sweep[w].result[c] = "clean" => Eligible(c, sweep[w].now) = {}

\* The sweep of the sessions fails for no reason of its own: unless a connection
\* failed or an event was written late, its deletes are accepted, also when
\* --category selects it alone.
SweepAloneSucceeds ==
    \A w \in Sweeper : sweep[w].result["sessions"] = "failed" => disturbed
=============================================================================
