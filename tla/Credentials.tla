---------------------------- MODULE Credentials ----------------------------
(***************************************************************************)
(* One account's password and the sessions that rest on it: login, change  *)
(* of password, issue and completion of a password reset, at the level of  *)
(* statements and of the lock on the users row.                            *)
(*                                                                         *)
(* Argon2 runs outside every transaction, so a password is verified on a   *)
(* hash read earlier: each flow is a read, a verification, and a write.    *)
(* Inserting a session checks its foreign key, which needs FOR KEY SHARE   *)
(* on the users row: that waits for SELECT ... FOR UPDATE, which a reset   *)
(* takes, but not for the FOR NO KEY UPDATE of the UPDATE a change of      *)
(* password makes.                                                         *)
(*                                                                         *)
(* A password is the number of the change that set it, so the hash counts  *)
(* the changes and a session's "proof" tells which password opened it.     *)
(***************************************************************************)
EXTENDS Naturals, FiniteSets

CONSTANTS
    Session,      \* session ids
    ResetToken,   \* password_reset_tokens rows
    Request,      \* slots of concurrent requests
    None,         \* no session, token or request
    MaxChanges    \* bound on the number of password changes and resets

\* The row locks name requests, so None must not be one.
ASSUME NoneAssumption == None \notin Request

VARIABLES
    password,   \* users.password_hash
    live,       \* sessions neither revoked nor absent
    opened,     \* sessions ever inserted
    proof,      \* the password a session was opened with
    reset,      \* password_reset_tokens: see ResetStates
    userLock,   \* [by, mode]: who holds the users row and how
    tokenLock,  \* who has a reset token row, by FOR UPDATE or by an UPDATE
    pc, req,    \* each request and what it remembers
    doomed,     \* the sessions a transaction has updated and will revoke
    witnessed,  \* the sessions that were live when it got the users row
    completed,  \* how many resets each token completed
    lastReset   \* the password the latest reset set

vars == <<password, live, opened, proof, reset, userLock, tokenLock,
          pc, req, doomed, witnessed, completed, lastReset>>
notes == <<completed, lastReset>>
rows == <<password, live, opened, proof, reset>>
locks == <<userLock, tokenLock>>

\* "used" is used_at, "retired" is invalidated_at, "expired" neither of them.
ResetStates == {"absent", "usable", "expired", "used", "retired"}

Passwords == 0..MaxChanges
Unlocked  == [by |-> None, mode |-> "none"]

\* seen: the hash captured at the start; own: the caller's session;
\* token: the reset token presented or to be inserted; late: it had expired
\* when the request read its clock, before any lock.
Params ==
    [op : {"login", "change", "issue", "complete"}, seen : Passwords,
     own : Session \cup {None}, token : ResetToken \cup {None}, late : BOOLEAN]
NoParams == [op |-> "none"]

TypeOK ==
    /\ password \in Passwords
    /\ opened \subseteq Session
    /\ live \subseteq opened
    /\ proof \in [Session -> Passwords]
    /\ reset \in [ResetToken -> ResetStates]
    /\ userLock \in [by : Request \cup {None}, mode : {"none", "nokey", "update"}]
    /\ tokenLock \in [ResetToken -> Request \cup {None}]
    /\ pc \in [Request -> {"idle", "verified", "token", "user", "tokens", "sessions",
                        "commit"}]
    /\ req \in [Request -> Params \cup {NoParams}]
    /\ doomed \in [Request -> SUBSET Session]
    /\ witnessed \in [Request -> SUBSET Session]
    /\ completed \in [ResetToken -> Nat]
    /\ lastReset \in Passwords
    /\ \A r \in Request : pc[r] # "idle" => req[r] \in Params

Init ==
    /\ password = 0
    /\ live = {} /\ opened = {}
    /\ proof = [s \in Session |-> 0]
    /\ reset = [t \in ResetToken |-> "absent"]
    /\ userLock = Unlocked
    /\ tokenLock = [t \in ResetToken |-> None]
    /\ pc = [r \in Request |-> "idle"]
    /\ req = [r \in Request |-> NoParams]
    /\ doomed = [r \in Request |-> {}]
    /\ witnessed = [r \in Request |-> {}]
    /\ completed = [t \in ResetToken |-> 0]
    /\ lastReset = 0

-----------------------------------------------------------------------------
Start(r, step, p) ==
    /\ pc[r] = "idle"
    /\ pc'  = [pc EXCEPT ![r] = step]
    /\ req' = [req EXCEPT ![r] = p]

\* Neither used nor retired.
Open(t) == reset[t] \in {"usable", "expired"}

Running(ops) == {r \in Request : pc[r] # "idle" /\ req[r].op \in ops}

\* Bounds: rows and password numbers are left for the requests that need one.
RoomForSession == Cardinality(opened) + Cardinality(Running({"login"})) < Cardinality(Session)
RoomForChange  == password + Cardinality(Running({"change", "complete"})) < MaxChanges

Goto(r, step) == pc' = [pc EXCEPT ![r] = step] /\ UNCHANGED req

\* Commit or rollback: every lock of r is released.
Finish(r) ==
    /\ pc'        = [pc EXCEPT ![r] = "idle"]
    /\ req'       = [req EXCEPT ![r] = NoParams]
    /\ doomed'    = [doomed EXCEPT ![r] = {}]
    /\ witnessed' = [witnessed EXCEPT ![r] = {}]
    /\ userLock'  = IF userLock.by = r THEN Unlocked ELSE userLock
    /\ tokenLock' = [t \in ResetToken |->
                        IF tokenLock[t] = r THEN None ELSE tokenLock[t]]

LockUser(r, mode) ==
    /\ userLock = Unlocked
    /\ userLock'  = [by |-> r, mode |-> mode]
    /\ witnessed' = [witnessed EXCEPT ![r] = live]

-----------------------------------------------------------------------------
(* login *)

\* The user is read and the presented password verified on that hash.
VerifyLogin(r) ==
    /\ RoomForSession
    /\ Start(r, "verified", [op |-> "login", seen |-> password,
                             own |-> None, token |-> None, late |-> FALSE])
    /\ UNCHANGED <<rows, locks, doomed, witnessed, notes>>

\* issueSession.  The foreign key waits for a users row locked FOR UPDATE.
InsertSession(r) ==
    /\ pc[r] = "verified" /\ req[r].op = "login"
    /\ userLock.mode # "update"
    /\ \E s \in Session \ opened :
          /\ opened' = opened \cup {s}
          /\ live'   = live \cup {s}
          /\ proof'  = [proof EXCEPT ![s] = req[r].seen]
    /\ Finish(r)
    /\ UNCHANGED <<password, reset, notes>>

\* Logout, session revocation and expiry, in one statement each.
EndSession(s) ==
    /\ s \in live
    /\ live' = live \ {s}
    /\ UNCHANGED <<password, opened, proof, reset, locks, pc, req,
                   doomed, witnessed, notes>>

-----------------------------------------------------------------------------
(* changePassword *)

\* The caller's session is live, its current password verified on the hash
\* read with it, and the new one found different from it.
VerifyCurrent(r) ==
    /\ RoomForChange
    /\ \E s \in live :
          Start(r, "verified", [op |-> "change", seen |-> password,
                                own |-> s, token |-> None, late |-> FALSE])
    /\ UNCHANGED <<rows, locks, doomed, witnessed, notes>>

\* UPDATE users: FOR NO KEY UPDATE on the row; the hash shows at the commit.
UpdateHash(r) ==
    /\ pc[r] = "verified" /\ req[r].op = "change"
    /\ LockUser(r, "nokey")
    /\ Goto(r, "sessions")
    /\ UNCHANGED <<rows, tokenLock, doomed, notes>>

\* Mutant: only the sessions opened with the replaced password.
DoomOthers_SamePassword(r) ==
    /\ pc[r] = "sessions" /\ req[r].op = "change"
    /\ doomed' = [doomed EXCEPT ![r] =
                     {s \in live \ {req[r].own} : proof[s] = req[r].seen}]
    /\ Goto(r, "commit")
    /\ UNCHANGED <<rows, locks, witnessed, notes>>

\* UPDATE sessions: the rows this statement sees, all but the caller's.
DoomOthers(r) ==
    /\ pc[r] = "sessions" /\ req[r].op = "change"
    /\ doomed' = [doomed EXCEPT ![r] = live \ {req[r].own}]
    /\ Goto(r, "commit")
    /\ UNCHANGED <<rows, locks, witnessed, notes>>

CommitChange(r) ==
    /\ pc[r] = "commit" /\ req[r].op = "change"
    /\ password' = password + 1
    /\ live' = live \ doomed[r]
    /\ Finish(r)
    /\ UNCHANGED <<opened, proof, reset, notes>>

-----------------------------------------------------------------------------
(* issueResetToken: user row, retire the unused tokens, insert. *)

RequestReset(r) ==
    /\ \E t \in ResetToken :
          /\ reset[t] = "absent"
          /\ \A q \in Request : req[q].op = "issue" => req[q].token # t
          /\ Start(r, "user", [op |-> "issue", seen |-> 0, own |-> None,
                               token |-> t, late |-> FALSE])
    /\ UNCHANGED <<rows, locks, doomed, witnessed, notes>>

\* Mutants: the users row is not locked; it is locked as an UPDATE would.
LockUserRow_PlainSelect(r) ==
    /\ pc[r] = "user"
    /\ Goto(r, "tokens")
    /\ UNCHANGED <<rows, locks, doomed, witnessed, notes>>
LockUserRow_NoKey(r) ==
    /\ pc[r] = "user"
    /\ LockUser(r, "nokey")
    /\ Goto(r, "tokens")
    /\ UNCHANGED <<rows, tokenLock, doomed, notes>>

\* The users row FOR UPDATE, for an issue or a completion.
LockUserRow(r) ==
    /\ pc[r] = "user"
    /\ LockUser(r, "update")
    /\ Goto(r, "tokens")
    /\ UNCHANGED <<rows, tokenLock, doomed, notes>>

Siblings(r)  == {t \in ResetToken \ {req[r].token} : Open(t)}
\* The siblings r has written: no other row but its own token is locked by it.
Retired(r)   == {t \in ResetToken \ {req[r].token} : tokenLock[t] = r}

\* UPDATE of the siblings, which waits for one a completion has locked.  With
\* the users row locked nobody inserts another meanwhile.
RetireSiblings(r) ==
    /\ pc[r] = "tokens"
    /\ \A t \in Siblings(r) : tokenLock[t] = None
    /\ tokenLock' = [t \in ResetToken |-> IF t \in Siblings(r) THEN r ELSE tokenLock[t]]
    /\ Goto(r, IF req[r].op = "issue" THEN "commit" ELSE "sessions")
    /\ UNCHANGED <<rows, userLock, doomed, witnessed, notes>>

ResetAfter(r, own) ==
    [t \in ResetToken |->
        IF t \in Retired(r) THEN "retired"
        ELSE IF t = req[r].token THEN own ELSE reset[t]]

CommitIssue(r) ==
    /\ pc[r] = "commit" /\ req[r].op = "issue"
    /\ reset' = ResetAfter(r, "usable")
    /\ Finish(r)
    /\ UNCHANGED <<password, live, opened, proof, notes>>

-----------------------------------------------------------------------------
(* completeReset: token row, user row, then all the writes. *)

PresentToken(r) ==
    /\ RoomForChange
    /\ \E t \in ResetToken :
          /\ reset[t] # "absent"
          /\ Start(r, "token", [op |-> "complete", seen |-> 0, own |-> None,
                                token |-> t, late |-> reset[t] = "expired"])
    /\ UNCHANGED <<rows, locks, doomed, witnessed, notes>>

Acceptable(r) == Open(req[r].token) /\ ~req[r].late

\* Mutant: the token is read without FOR UPDATE.
LockResetToken_PlainSelect(r) ==
    /\ pc[r] = "token"
    /\ Acceptable(r)
    /\ Goto(r, "user")
    /\ UNCHANGED <<rows, locks, doomed, witnessed, notes>>

LockResetToken(r) ==
    /\ pc[r] = "token"
    /\ Acceptable(r)
    /\ tokenLock[req[r].token] = None
    /\ tokenLock' = [tokenLock EXCEPT ![req[r].token] = r]
    /\ Goto(r, "user")
    /\ UNCHANGED <<rows, userLock, doomed, witnessed, notes>>

\* already_used, or expired.
RefuseToken(r) ==
    /\ pc[r] = "token"
    /\ ~Acceptable(r)
    /\ tokenLock[req[r].token] = None
    /\ UNCHANGED <<rows, notes>>
    /\ Finish(r)

\* UPDATE sessions: every live session it sees.
DoomAll(r) ==
    /\ pc[r] = "sessions" /\ req[r].op = "complete"
    /\ doomed' = [doomed EXCEPT ![r] = live]
    /\ Goto(r, "commit")
    /\ UNCHANGED <<rows, locks, witnessed, notes>>

\* Mutant: the hash is written on another connection, which waits for the
\* users row this very transaction has locked.
CommitReset_OtherConnection(r) ==
    /\ pc[r] = "commit" /\ req[r].op = "complete" /\ userLock = Unlocked
    /\ password' = password + 1
    /\ Finish(r)
    /\ UNCHANGED <<live, opened, proof, reset, completed, lastReset>>

\* Hash, token, siblings and sessions in one commit.
CommitReset(r) ==
    /\ pc[r] = "commit" /\ req[r].op = "complete"
    /\ password' = password + 1
    /\ reset' = ResetAfter(r, "used")
    /\ live' = live \ doomed[r]
    /\ completed' = [completed EXCEPT ![req[r].token] = @ + 1]
    /\ lastReset' = password'
    /\ Finish(r)
    /\ UNCHANGED <<opened, proof>>

-----------------------------------------------------------------------------
(* Time and failures *)

ExpireToken(t) ==
    /\ reset[t] = "usable"
    /\ reset' = [reset EXCEPT ![t] = "expired"]
    /\ UNCHANGED <<password, live, opened, proof, locks, pc, req,
                   doomed, witnessed, notes>>

\* A lost connection, an error or a crash: nothing is written.
Abort(r) ==
    /\ pc[r] # "idle"
    /\ UNCHANGED <<rows, notes>>
    /\ Finish(r)

WaitsForUser(r) ==
    \/ pc[r] = "user"
    \/ pc[r] = "verified" /\ req[r].op = "change"
    \/ pc[r] = "verified" /\ req[r].op = "login" /\ userLock.mode = "update"

WaitsForToken(r, t) ==
    \/ pc[r] = "token" /\ t = req[r].token
    \/ pc[r] = "tokens" /\ t \in Siblings(r)

WaitsOn(r, q) ==
    /\ q # r
    /\ \/ WaitsForUser(r) /\ userLock.by = q
       \/ \E t \in ResetToken : WaitsForToken(r, t) /\ tokenLock[t] = q

\* r is on a cycle of waiting transactions.
Deadlocked(r) ==
    \E S \in SUBSET Request :
        /\ r \in S
        /\ \A q \in S : /\ \E x \in S : WaitsOn(q, x)
                        /\ \E x \in S : WaitsOn(x, q)

\* PostgreSQL aborts a transaction it finds on such a cycle.
DeadlockVictim(r) == Deadlocked(r) /\ Abort(r)

Next ==
    \/ \E r \in Request :
          \/ VerifyLogin(r)    \/ InsertSession(r)
          \/ VerifyCurrent(r)  \/ UpdateHash(r)     \/ DoomOthers(r) \/ CommitChange(r)
          \/ RequestReset(r)   \/ LockUserRow(r)    \/ RetireSiblings(r) \/ CommitIssue(r)
          \/ PresentToken(r)   \/ LockResetToken(r) \/ RefuseToken(r)
          \/ DoomAll(r)        \/ CommitReset(r)
          \/ Abort(r)
    \/ \E s \in Session : EndSession(s)
    \/ \E t \in ResetToken : ExpireToken(t)

Spec == Init /\ [][Next]_vars

\* Steps that wait for a lock; steps that do not, among them the end of a wait
\* that the deadlock detector breaks.
Acquire(r) ==
    \/ UpdateHash(r) \/ LockUserRow(r)
    \/ LockResetToken(r) \/ RefuseToken(r) \/ RetireSiblings(r)
Proceed(r) ==
    \/ DoomOthers(r) \/ CommitChange(r)
    \/ CommitIssue(r) \/ DoomAll(r) \/ CommitReset(r)
    \/ DeadlockVictim(r)

\* Handlers that can go on do, lock queues are first come first served, the
\* deadlock detector runs.
FairSpec == Spec /\ \A r \in Request : SF_vars(Acquire(r)) /\ WF_vars(Proceed(r))

-----------------------------------------------------------------------------
(* Properties *)

\* Issuance serializes per user: never two reset tokens that were neither used
\* nor retired, whatever issues and completions interleave.
OneOpenReset ==
    \A t, u \in ResetToken : Open(t) /\ Open(u) => t = u

\* A token a later request retired cannot complete, not even in a transaction
\* that read it before it was retired; with that, "Exactly one concurrent
\* completion of a token can succeed" (docs/credential-management.md).
CompletesOnlyOpen ==
    \A t \in ResetToken : completed'[t] # completed[t] => Open(t)
RetiredTokenIsDead == [][CompletesOnlyOpen]_vars

\* When a reset commits, no session at all is live: logins that race it are
\* held back by their foreign key until it is over.
ResetClearsSessions  == lastReset' # lastReset => live' = {}
ResetLeavesNoSession == [][ResetClearsSessions]_vars

\* When a change of password commits, every session that was live when it got
\* the users row is over, except the caller's.
ChangeClearsWitnessed ==
    \A r \in Request :
        pc[r] = "commit" /\ req[r].op = "change" /\ pc'[r] = "idle" /\ password' # password
           => live' \cap (witnessed[r] \ {req[r].own}) = {}
ChangeEndsWhatItFound == [][ChangeClearsWitnessed]_vars

\* Every transaction ends, the deadlock between the issue of a token and the
\* completion of the previous one included.
InTransaction(r) == pc[r] \in {"token", "user", "tokens", "sessions", "commit"}
Idle(r)          == pc[r] = "idle"
TransactionsEnd  == \A r \in Request : InTransaction(r) ~> Idle(r)

\* "the reset invalidates all prior authentication; the user must sign in again
\* with the new password" (password-recovery.repo.ts): no live session was
\* opened with a password older than the latest reset.
ResetEndsPriorAuthentication == \A s \in live : proof[s] >= lastReset
=============================================================================
