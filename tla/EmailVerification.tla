------------------------- MODULE EmailVerification -------------------------
(***************************************************************************)
(* One account's email address and the tokens that verify it: request and  *)
(* resend, completion by the emailed token, and the change of address.     *)
(*                                                                         *)
(* The mail goes out before the token is stored, so that a failed delivery *)
(* leaves the previous token usable; a token that was mailed but never     *)
(* stored is a dead link.  Issuance takes no lock on the account: it       *)
(* retires the tokens it sees, row by row, and inserts one, which needs    *)
(* FOR KEY SHARE on the users row.  That waits for the FOR UPDATE of a     *)
(* completion and for the UPDATE of a change of address, which writes a    *)
(* column with a unique index and therefore locks as strongly; it does not *)
(* wait for an UPDATE that leaves that column as it is.                    *)
(***************************************************************************)
EXTENDS Naturals, FiniteSets

CONSTANTS
    Address,        \* normalized email addresses
    FirstAddress,   \* the one the account registered with
    Token,          \* raw tokens, each mailed at most once
    Request,        \* slots of concurrent requests
    None            \* no address, token or request

ASSUME AddressAssumption == FirstAddress \in Address
ASSUME NoneAssumption    == None \notin Address \cup Token \cup Request

VARIABLES
    address,    \* users.normalized_email
    verified,   \* users.email_verified_at is set
    proven,     \* the address that the token which verified was mailed to
    token,      \* email_verification_tokens: see TokenStates
    mailedTo,   \* where the mailer delivered a raw token
    userLock,   \* [by, mode]: who holds the users row and how
    tokenLock,  \* who has locked or updated a token row
    pc, req,    \* each request and what it remembers
    found,      \* the open tokens its UPDATE saw when it started
    left,       \* those of them the UPDATE has not reached
    completed   \* how many verifications each token completed

vars == <<address, verified, proven, token, mailedTo, userLock, tokenLock,
          pc, req, found, left, completed>>
account == <<address, verified, proven>>
rows    == <<account, token, mailedTo, completed>>
locks   == <<userLock, tokenLock>>
scan    == <<found, left>>

\* "used" is used_at, "retired" is invalidated_at, "expired" neither of them.
TokenStates == {"absent", "usable", "expired", "used", "retired"}

Unlocked == [by |-> None, mode |-> "none"]

\* to: the address read or asked for; token: the one mailed or presented;
\* late: it had expired when the request read its clock, before any lock.
Params == [op : {"issue", "complete", "change"}, to : Address \cup {None},
           token : Token \cup {None}, late : BOOLEAN]
NoParams == [op |-> "none"]

Init ==
    /\ address = FirstAddress /\ verified = TRUE /\ proven = FirstAddress
    /\ token = [t \in Token |-> "absent"]
    /\ mailedTo = [t \in Token |-> None]
    /\ userLock = Unlocked
    /\ tokenLock = [t \in Token |-> None]
    /\ pc = [r \in Request |-> "idle"]
    /\ req = [r \in Request |-> NoParams]
    /\ found = [r \in Request |-> {}]
    /\ left = [r \in Request |-> {}]
    /\ completed = [t \in Token |-> 0]

-----------------------------------------------------------------------------
\* Neither used nor retired.
Open(t) == token[t] \in {"usable", "expired"}

Goto(r, step, p) ==
    /\ pc'  = [pc EXCEPT ![r] = step]
    /\ req' = [req EXCEPT ![r] = p]

Start(r, step, p) == pc[r] = "idle" /\ Goto(r, step, p)

\* Commit or rollback: r holds no lock any more.
Release(r) ==
    /\ userLock'  = IF userLock.by = r THEN Unlocked ELSE userLock
    /\ tokenLock' = [t \in Token |-> IF tokenLock[t] = r THEN None ELSE tokenLock[t]]
    /\ found'     = [found EXCEPT ![r] = {}]
    /\ left'      = [left EXCEPT ![r] = {}]

Finish(r) == Release(r) /\ Goto(r, "idle", NoParams)

\* The UPDATE that retires tokens is through.
Scanned(r, op) == pc[r] = "retire" /\ left[r] = {} /\ req[r].op = op

\* The token rows when r commits: those it has updated are retired, its own
\* gets a state.
TokensAfter(r, own) ==
    [t \in Token |-> IF t = req[r].token THEN own
                     ELSE IF tokenLock[t] = r THEN "retired" ELSE token[t]]

-----------------------------------------------------------------------------
(* Retiring the open tokens of the account, in every transaction *)

\* The UPDATE sees the rows committed when it starts; a completion excludes
\* its own token.
ScanTokens(r) ==
    /\ pc[r] = "scan"
    /\ LET seen == {t \in Token \ {req[r].token} : Open(t)} IN
          /\ found' = [found EXCEPT ![r] = seen]
          /\ left'  = [left EXCEPT ![r] = seen]
    /\ Goto(r, "retire", req[r])
    /\ UNCHANGED <<rows, locks>>

\* It waits for a row another transaction holds and leaves it alone if it is
\* not open any more.
RetireToken(r) ==
    /\ pc[r] = "retire"
    /\ \E t \in left[r] :
          /\ tokenLock[t] = None
          /\ left' = [left EXCEPT ![r] = @ \ {t}]
          /\ tokenLock' = [tokenLock EXCEPT ![t] = IF Open(t) THEN r ELSE None]
    /\ UNCHANGED <<rows, userLock, pc, req, found>>

-----------------------------------------------------------------------------
(* requestVerificationEmail: read the account, mail, store *)

\* The stored row is re-read; a verified account gets no token.
RequestEmail(r) ==
    /\ ~verified
    /\ Start(r, "mail", [op |-> "issue", to |-> address, token |-> None, late |-> FALSE])
    /\ UNCHANGED <<rows, locks, scan>>

Fresh(t) == mailedTo[t] = None /\ token[t] = "absent"
               /\ \A q \in Request : req[q] # NoParams => req[q].token # t

\* Mutant: a delivery that fails is not noticed.
Deliver_IgnoresFailure(r) ==
    /\ pc[r] = "mail"
    /\ \E t \in Token :
          /\ Fresh(t)
          /\ mailedTo' \in {mailedTo, [mailedTo EXCEPT ![t] = req[r].to]}
          /\ Goto(r, "scan", [req[r] EXCEPT !.token = t])
    /\ UNCHANGED <<account, token, completed, locks, scan>>

\* The mailer accepted the message; when it does not, the request ends (Abort).
Deliver(r) ==
    /\ pc[r] = "mail"
    /\ \E t \in Token :
          /\ Fresh(t)
          /\ mailedTo' = [mailedTo EXCEPT ![t] = req[r].to]
          /\ Goto(r, "scan", [req[r] EXCEPT !.token = t])
    /\ UNCHANGED <<account, token, completed, locks, scan>>

\* The foreign key waits for a users row locked as strongly as FOR UPDATE; the
\* commit follows the insertion at once.
InsertToken(r) ==
    /\ Scanned(r, "issue")
    /\ userLock.mode # "update"
    /\ token' = TokensAfter(r, "usable")
    /\ Finish(r)
    /\ UNCHANGED <<account, mailedTo, completed>>

-----------------------------------------------------------------------------
(* completeVerification: token row, users row, then the writes *)

PresentToken(r) ==
    /\ \E t \in Token :
          /\ mailedTo[t] # None
          /\ Start(r, "token", [op |-> "complete", to |-> None, token |-> t,
                                late |-> token[t] = "expired"])
    /\ UNCHANGED <<rows, locks, scan>>

Acceptable(r) == Open(req[r].token) /\ ~req[r].late

LockToken(r) ==
    /\ pc[r] = "token"
    /\ Acceptable(r)
    /\ tokenLock[req[r].token] = None
    /\ tokenLock' = [tokenLock EXCEPT ![req[r].token] = r]
    /\ Goto(r, "user", req[r])
    /\ UNCHANGED <<rows, userLock, scan>>

\* not_found (a link whose token was never stored), already_used or expired.
RefuseToken(r) ==
    /\ pc[r] = "token"
    /\ ~Acceptable(r)
    /\ tokenLock[req[r].token] = None
    /\ Finish(r)
    /\ UNCHANGED rows

\* Mutant: email_verified_at is written on another connection, which waits for the
\* users row this very transaction has locked.
CommitVerification_OtherConnection(r) ==
    /\ Scanned(r, "complete") /\ userLock = Unlocked
    /\ verified' = TRUE
    /\ Finish(r)
    /\ UNCHANGED <<address, proven, token, mailedTo, completed>>

\* Token, siblings and email_verified_at in one commit.
CommitVerification(r) ==
    /\ Scanned(r, "complete")
    /\ token' = TokensAfter(r, "used")
    /\ completed' = [completed EXCEPT ![req[r].token] = @ + 1]
    /\ verified' = TRUE
    /\ proven' = IF verified THEN proven ELSE mailedTo[req[r].token]
    /\ Finish(r)
    /\ UNCHANGED <<address, mailedTo>>

-----------------------------------------------------------------------------
(* changeEmail *)

\* The new address differs from the one read with the session.
RequestChange(r) ==
    /\ \E a \in Address \ {address} :
          Start(r, "user", [op |-> "change", to |-> a, token |-> None, late |-> FALSE])
    /\ UNCHANGED <<rows, locks, scan>>

\* Mutant: an UPDATE of the address locks like any other.
LockUserRow_NoKey(r) ==
    /\ pc[r] = "user"
    /\ userLock = Unlocked
    /\ userLock' = [by |-> r, mode |-> IF req[r].op = "complete" THEN "update" ELSE "nokey"]
    /\ Goto(r, "scan", req[r])
    /\ UNCHANGED <<rows, tokenLock, scan>>

\* A completion's SELECT ... FOR UPDATE, or the UPDATE of the address.  A
\* concurrent change may have set the same address already.
LockUserRow(r) ==
    /\ pc[r] = "user"
    /\ userLock = Unlocked
    /\ userLock' = [by |-> r, mode |-> IF req[r].to = address THEN "nokey" ELSE "update"]
    /\ Goto(r, "scan", req[r])
    /\ UNCHANGED <<rows, tokenLock, scan>>

\* sendBestEffortVerificationEmail: whatever fails, the change stands.
SendBestEffort(r) == Goto(r, "mail", [req[r] EXCEPT !.op = "issue"])

\* Address and tokens in one commit; then the best-effort mail to the address
\* just committed.
CommitChange(r) ==
    /\ Scanned(r, "change")
    /\ address' = req[r].to
    /\ verified' = FALSE
    /\ token' = TokensAfter(r, "absent")
    /\ Release(r)
    /\ SendBestEffort(r)
    /\ UNCHANGED <<proven, mailedTo, completed>>

-----------------------------------------------------------------------------
(* Time and failures *)

ExpireToken(t) ==
    /\ token[t] = "usable"
    /\ token' = [token EXCEPT ![t] = "expired"]
    /\ UNCHANGED <<account, mailedTo, completed, locks, pc, req, scan>>

\* A failed delivery, a unique violation, a lost connection, a crash: nothing
\* is written.
Abort(r) ==
    /\ pc[r] # "idle"
    /\ Finish(r)
    /\ UNCHANGED rows

WaitsOn(r, q) ==
    /\ q # r
    /\ \/ pc[r] = "user" /\ userLock.by = q
       \/ Scanned(r, "issue") /\ userLock.mode = "update" /\ userLock.by = q
       \/ pc[r] = "token" /\ tokenLock[req[r].token] = q
       \/ pc[r] = "retire" /\ \E t \in left[r] : tokenLock[t] = q

\* PostgreSQL aborts a transaction it finds on a cycle of waits.
Deadlocked(r) ==
    \E S \in SUBSET Request :
        /\ r \in S
        /\ \A q \in S : /\ \E x \in S : WaitsOn(q, x)
                        /\ \E x \in S : WaitsOn(x, q)
DeadlockVictim(r) == Deadlocked(r) /\ Abort(r)

Next ==
    \/ \E r \in Request :
          \/ RequestEmail(r)  \/ Deliver(r)     \/ InsertToken(r)
          \/ ScanTokens(r)    \/ RetireToken(r)
          \/ PresentToken(r)  \/ LockToken(r)   \/ RefuseToken(r)
          \/ CommitVerification(r)
          \/ RequestChange(r) \/ LockUserRow(r) \/ CommitChange(r)
          \/ Abort(r)
    \/ \E t \in Token : ExpireToken(t)

Spec == Init /\ [][Next]_vars

\* Steps that wait for a lock; steps that do not, among them the end of a wait
\* that the deadlock detector breaks.
Acquire(r) ==
    \/ LockToken(r)   \/ RefuseToken(r) \/ LockUserRow(r)
    \/ RetireToken(r) \/ InsertToken(r)
Proceed(r) ==
    \/ ScanTokens(r) \/ CommitVerification(r) \/ CommitChange(r) \/ DeadlockVictim(r)

\* Handlers that can go on do, lock queues are first come first served, the
\* deadlock detector runs.
FairSpec == Spec /\ \A r \in Request : SF_vars(Acquire(r)) /\ WF_vars(Proceed(r))

-----------------------------------------------------------------------------
(* Properties *)

\* Types, and a request under way remembers its parameters.
TypeOK ==
    /\ address \in Address /\ proven \in Address
    /\ verified \in BOOLEAN
    /\ token \in [Token -> TokenStates]
    /\ mailedTo \in [Token -> Address \cup {None}]
    /\ userLock \in [by : Request \cup {None}, mode : {"none", "nokey", "update"}]
    /\ tokenLock \in [Token -> Request \cup {None}]
    /\ pc \in [Request -> {"idle", "mail", "scan", "retire", "token", "user"}]
    /\ req \in [Request -> Params \cup {NoParams}]
    /\ found \in [Request -> SUBSET Token]
    /\ left \in [Request -> SUBSET Token]
    /\ completed \in [Token -> Nat]
    /\ \A r \in Request : pc[r] # "idle" => req[r] \in Params

\* "a token verifies at most once, ever" (email-verification.service.ts), and
\* never after it was retired; a completion and a change of address leave no
\* open token at all: the one an issue inserts meanwhile is held back by its
\* foreign key.
AccountWritesRetireAll ==
    [][/\ \A t \in Token : completed'[t] # completed[t] => Open(t)
       /\ address' # address \/ completed' # completed => \A t \in Token : ~Open(t)']_vars

\* An open token is only retired for a replacement that was delivered, by a
\* change of address or by a completion: a failing mailer strands nobody.
NobodyIsStranded ==
    [][\A t \in Token :
          Open(t) /\ token'[t] = "retired" =>
             \/ \E r \in Request : Scanned(r, "change")
             \/ completed' # completed
             \/ \E u \in Token : Open(u)' /\ mailedTo[u] # None]_vars

\* Every transaction ends, the deadlocks of issues, completions and changes of
\* address included.
TransactionsEnd ==
    \A r \in Request : pc[r] \in {"scan", "retire", "token", "user"}
                          ~> pc[r] \in {"idle", "mail"}

\* "a committed change can never leave the old address verified or verifiable"
\* (auth.repo.ts): the token that verified the account was mailed to the
\* address the account has.
VerifiedAddressIsProven == verified => proven = address
=============================================================================
