----------------------------- MODULE Pagination ------------------------------
(***************************************************************************)
(* The keyset lists: projects, API keys, members, organizations, sessions, *)
(* invitations, audit events.  Each orders by (created_at desc, id desc)   *)
(* and asks for what follows the last row of the page before.  PostgreSQL  *)
(* keeps created_at in microseconds; the driver hands it over as a Date,   *)
(* which has milliseconds, and the cursor carries that.                    *)
(*                                                                         *)
(* A client walks one list from its first page to its last while rows are  *)
(* created and ended.  created_at is the start of the creating             *)
(* transaction, so rows can share it and can appear after younger ones.    *)
(***************************************************************************)
EXTENDS Naturals, FiniteSets

CONSTANTS
    List,       \* the lists a client may walk
    Id,         \* rows of the list; ids are ordered, and random
    Limit,      \* the page size
    PerMilli,   \* instants in a millisecond
    MaxTime     \* bound on the clock

VARIABLES
    list,       \* the list that is walked
    rows,       \* its table
    now,        \* the clock of PostgreSQL
    walk,       \* "off", "on" or "done"
    cursor,     \* what the client sends with its next request
    page,       \* history: the page it got last
    shown,      \* history: the rows of the pages before that
    standing,   \* history: rows that were listed all the time since the start
    cuts        \* history: the milliseconds of the cursors handed out

vars == <<list, rows, now, walk, cursor, page, shown, standing, cuts>>

Time     == 0 .. MaxTime
NoCursor == [ms |-> MaxTime + 1, id |-> 0]
Row      == [state : {"absent", "staged", "live", "ended"}, at : Time]

TypeOK ==
    /\ list \in List
    /\ rows \in [Id -> Row]
    /\ now \in Time
    /\ walk \in {"off", "on", "done"}
    /\ cursor = NoCursor \/ cursor \in [ms : Time, id : Id]
    /\ \A S \in {page, shown, standing} : S \subseteq Id
    /\ cuts \subseteq Time

Init ==
    /\ list \in List
    /\ rows = [x \in Id |-> [state |-> "absent", at |-> 0]]
    /\ now = 0
    /\ walk = "off" /\ cursor = NoCursor
    /\ page = {} /\ shown = {} /\ standing = {} /\ cuts = {}

-----------------------------------------------------------------------------
Millis(t) == t \div PerMilli

\* ORDER BY created_at DESC, id DESC
Precedes(x, y) ==
    \/ rows[x].at > rows[y].at
    \/ rows[x].at = rows[y].at /\ x > y

\* Mutant: the comparison of created_at is not strict.
Follows_Inclusive(x) ==
    \/ cursor = NoCursor
    \/ rows[x].at <= cursor.ms * PerMilli + PerMilli - 1

\* created_at < cursor OR (created_at = cursor AND id < cursor.id), where the
\* cursor is the start of a millisecond.
Follows(x) ==
    \/ cursor = NoCursor
    \/ rows[x].at < cursor.ms * PerMilli
    \/ rows[x].at = cursor.ms * PerMilli /\ x < cursor.id

Live     == {x \in Id : rows[x].state = "live"}
Recorded == {x \in Id : rows[x].state \in {"live", "ended"}}

\* The WHERE of each list: some hide what has ended.  An archived organization
\* and a removed membership count as ended, as do revoked and expired sessions.
ActiveProjects      == Live
ListedApiKeys       == Recorded
ActiveMembers       == Live
ActiveOrganizations == Live
ActiveSessions      == Live
ListedInvitations   == Recorded
AuditEvents         == Recorded

\* limit + 1 rows are fetched; the extra one only says that there are more.
ReadPage(listed) ==
    LET rest == {x \in listed : Follows(x)}
        more == Cardinality(rest) > Limit
        size == IF more THEN Limit ELSE Cardinality(rest)
    IN  \E P \in SUBSET rest :
          /\ Cardinality(P) = size
          /\ \A x \in P, y \in rest \ P : Precedes(x, y)
          /\ page' = P /\ shown' = shown \cup page
          /\ standing' = IF walk = "off" THEN listed ELSE standing
          /\ IF more
             THEN LET last == CHOOSE x \in P : \A y \in P \ {x} : Precedes(y, x)
                  IN  /\ cursor' = [ms |-> Millis(rows[last].at), id |-> last]
                      /\ cuts' = cuts \cup {Millis(rows[last].at)}
                      /\ walk' = "on"
             ELSE walk' = "done" /\ UNCHANGED <<cursor, cuts>>
          /\ UNCHANGED <<list, rows, now>>

ListProjects      == walk # "done" /\ list = "projects"      /\ ReadPage(ActiveProjects)
ListApiKeys       == walk # "done" /\ list = "api_keys"      /\ ReadPage(ListedApiKeys)
ListMembers       == walk # "done" /\ list = "members"       /\ ReadPage(ActiveMembers)
ListOrganizations == walk # "done" /\ list = "organizations" /\ ReadPage(ActiveOrganizations)
ListSessions      == walk # "done" /\ list = "sessions"      /\ ReadPage(ActiveSessions)
ListInvitations   == walk # "done" /\ list = "invitations"   /\ ReadPage(ListedInvitations)
ListAuditEvents   == walk # "done" /\ list = "audit"         /\ ReadPage(AuditEvents)

-----------------------------------------------------------------------------
client == <<walk, cursor, page, shown, cuts>>

\* now() is the start of the transaction, the row appears with its commit.
Insert(x) ==
    /\ rows[x].state = "absent"
    /\ rows' = [rows EXCEPT ![x] = [state |-> "staged", at |-> now]]
    /\ UNCHANGED <<list, now, client, standing>>

Commit(x) ==
    /\ rows[x].state = "staged"
    /\ rows' = [rows EXCEPT ![x].state = "live"]
    /\ UNCHANGED <<list, now, client, standing>>

End(x) ==
    /\ list # "audit" /\ rows[x].state = "live"
    /\ rows' = [rows EXCEPT ![x].state = "ended"]
    /\ standing' = IF list \in {"api_keys", "invitations"} THEN standing ELSE standing \ {x}
    /\ UNCHANGED <<list, now, client>>

Tick ==
    /\ now < MaxTime /\ now' = now + 1
    /\ UNCHANGED <<list, rows, client, standing>>

Next ==
    \/ ListProjects \/ ListApiKeys \/ ListMembers \/ ListOrganizations
    \/ ListSessions \/ ListInvitations \/ ListAuditEvents
    \/ Tick
    \/ \E x \in Id : Insert(x) \/ Commit(x) \/ End(x)

Spec == Init /\ [][Next]_vars

-----------------------------------------------------------------------------
\* A walk shows no row twice, and of the rows that were there all the time it
\* leaves out at most such as share a millisecond with the last row of a page
\* (the seven list methods of the repositories and their services).
WalkIsSound ==
    /\ page \cap shown = {}
    /\ walk = "done" =>
         \A x \in standing \ (page \cup shown) : Millis(rows[x].at) \in cuts

\* A walk to the last page shows every row that was there all the time: what
\* audit.repo.ts says of its pages ("never duplicate or skip").  Refuted: rows
\* may share a millisecond, to which the cursor is cut.
NothingSkipped == walk = "done" => standing \subseteq page \cup shown
=============================================================================
