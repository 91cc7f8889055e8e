---------------------- MODULE EmailVerification_proofs ----------------------
(***************************************************************************)
(* What a verification and a change of address do to the tokens of an      *)
(* account, for any number of addresses, tokens and concurrent requests.   *)
(*                                                                         *)
(* An issue takes no lock on the account, so the tokens a transaction has  *)
(* seen are not all there ever are.  The argument is that they are while   *)
(* it has the users row as strongly as FOR UPDATE: the insertion of        *)
(* another waits for it.  Whatever is open is then among the rows it has   *)
(* still to reach, or updated already.                                     *)
(***************************************************************************)
EXTENDS EmailVerification, TLAPS

USE NoneAssumption, AddressAssumption DEF Goto, Start, Finish, rows, account, locks, scan

\* Which request stands where, and what it carries.
Stage(r) ==
    /\ pc[r] = "idle" <=> req[r] = NoParams
    /\ pc[r] = "mail" => req[r].op = "issue" /\ req[r].token = None
    /\ pc[r] = "token" => req[r].op = "complete"
    /\ pc[r] = "user" => req[r].op \in {"complete", "change"}
    /\ req[r].op = "issue" => /\ req[r].to \in Address
                              /\ pc[r] # "mail" => req[r].token \in Token
    /\ req[r].op = "complete" => req[r].token \in Token /\ req[r].to = None
    /\ req[r].op = "change" => req[r].token = None /\ req[r].to \in Address

\* A completion or a change of address has the users row from the lock to its
\* commit, as strongly as FOR UPDATE when it is to write a new address.
UserHeld(r) ==
    pc[r] \in {"scan", "retire"} /\ req[r].op \in {"complete", "change"} =>
        /\ userLock.by = r
        /\ req[r].to # address => userLock.mode = "update"

\* A completion that was let through has its token.
TokenHeld(r) ==
    pc[r] \in {"user", "scan", "retire"} /\ req[r].op = "complete"
       => tokenLock[req[r].token] = r

\* A link that is presented was mailed.
PresentedWasMailed(r) == req[r].op = "complete" => mailedTo[req[r].token] # None

\* Only open tokens are locked.
LocksAreOnOpen == \A t \in Token : tokenLock[t] # None => Open(t)

\* A token that was mailed for an issue is not there before the issue ends.
IssuesApart ==
    \A r \in Request : req[r].op = "issue" /\ req[r].token # None =>
        /\ token[req[r].token] = "absent" /\ mailedTo[req[r].token] # None
        /\ \A q \in Request \ {r} : req[q].op = "issue" => req[q].token # req[r].token

\* Under the strong lock, an open token is one the UPDATE saw.
ScanCovers(r) ==
    pc[r] = "retire" /\ userLock = [by |-> r, mode |-> "update"] =>
        \A t \in Token \ {req[r].token} : Open(t) => t \in left[r] \/ tokenLock[t] = r

IInv ==
    /\ TypeOK
    /\ \A r \in Request : Stage(r)
    /\ \A r \in Request : UserHeld(r)
    /\ \A r \in Request : TokenHeld(r)
    /\ \A r \in Request : PresentedWasMailed(r)
    /\ LocksAreOnOpen
    /\ IssuesApart
    /\ \A r \in Request : ScanCovers(r)

\* The initial states satisfy the invariant.
LEMMA InitInv == Init => IInv
  BY DEF Init, IInv, TypeOK, TokenStates, Unlocked, NoParams, Stage, UserHeld, TokenHeld,
         PresentedWasMailed, LocksAreOnOpen, IssuesApart, ScanCovers

\* Every step keeps every variable in its domain.
LEMMA TypeStep == IInv /\ [Next]_vars => TypeOK'
<1> SUFFICES ASSUME TypeOK, \A r \in Request : Stage(r), [Next]_vars,
                    \A r \in Request : PresentedWasMailed(r)
             PROVE  TypeOK'
  BY DEF IInv
<1> USE DEF TypeOK, NoParams
<1>1. ASSUME NEW r \in Request, RequestEmail(r) \/ PresentToken(r) \/ RequestChange(r)
      PROVE TypeOK'
  <2>1. CASE RequestEmail(r)
    <3>1. [op |-> "issue", to |-> address, token |-> None, late |-> FALSE] \in Params
      BY DEF Params
    <3> QED
      BY <2>1, <3>1 DEF RequestEmail
  <2>2. CASE PresentToken(r)
    <3>1. \A t \in Token : [op |-> "complete", to |-> None, token |-> t,
                            late |-> token[t] = "expired"] \in Params
      BY DEF Params
    <3> QED
      BY <2>2, <3>1 DEF PresentToken
  <2>3. CASE RequestChange(r)
    <3>1. \A a \in Address : [op |-> "change", to |-> a, token |-> None, late |-> FALSE]
                                \in Params
      BY DEF Params
    <3> QED
      BY <2>3, <3>1 DEF RequestChange
  <2> QED
    BY <1>1, <2>1, <2>2, <2>3
<1>2. ASSUME NEW r \in Request, Deliver(r) PROVE TypeOK'
  <2>1. \A t \in Token : [req[r] EXCEPT !.token = t] \in Params
    BY <1>2 DEF Deliver, Params
  <2>2. req[r].to \in Address
    BY <1>2 DEF Deliver, Stage
  <2> QED
    BY <1>2, <2>1, <2>2 DEF Deliver
<1>3. ASSUME NEW r \in Request, InsertToken(r) \/ CommitVerification(r) PROVE TypeOK'
  <2>1. \A own \in TokenStates : TokensAfter(r, own) \in [Token -> TokenStates]
    BY DEF TokensAfter, TokenStates
  <2>2. /\ userLock' \in [by : Request \cup {None}, mode : {"none", "nokey", "update"}]
        /\ tokenLock' \in [Token -> Request \cup {None}]
        /\ found' \in [Request -> SUBSET Token] /\ left' \in [Request -> SUBSET Token]
        /\ pc' = [pc EXCEPT ![r] = "idle"] /\ req' = [req EXCEPT ![r] = NoParams]
    BY <1>3 DEF InsertToken, CommitVerification, Release, Unlocked
  <2>3. CASE InsertToken(r)
    BY <2>1, <2>2, <2>3 DEF InsertToken, TokenStates
  <2>4. CASE CommitVerification(r)
    <3>1. req[r].token \in Token /\ mailedTo[req[r].token] \in Address
      BY <2>4 DEF CommitVerification, Scanned, Stage, PresentedWasMailed
    <3>2. proven' \in Address /\ completed' \in [Token -> Nat]
      BY <2>4, <3>1 DEF CommitVerification
    <3> QED
      BY <2>1, <2>2, <2>4, <3>2 DEF CommitVerification, TokenStates
  <2> QED
    BY <1>3, <2>3, <2>4
<1>4. ASSUME NEW r \in Request, CommitChange(r) PROVE TypeOK'
  <2>1. TokensAfter(r, "absent") \in [Token -> TokenStates]
    BY DEF TokensAfter, TokenStates
  <2>2. [req[r] EXCEPT !.op = "issue"] \in Params /\ req[r].to \in Address
    BY <1>4 DEF CommitChange, Scanned, Params, Stage
  <2> QED
    BY <1>4, <2>1, <2>2 DEF CommitChange, Release, Unlocked, SendBestEffort
<1>5. ASSUME NEW r \in Request, RefuseToken(r) \/ Abort(r) PROVE TypeOK'
  BY <1>5 DEF RefuseToken, Abort, Release, Unlocked
<1>6. ASSUME NEW r \in Request, ScanTokens(r) \/ RetireToken(r) PROVE TypeOK'
  BY <1>6 DEF ScanTokens, RetireToken
<1>7. ASSUME NEW r \in Request, LockToken(r) \/ LockUserRow(r) PROVE TypeOK'
  BY <1>7 DEF LockToken, LockUserRow
<1>8. CASE \E t \in Token : ExpireToken(t)
  BY <1>8 DEF ExpireToken, TokenStates
<1>9. CASE UNCHANGED vars
  BY <1>9 DEF vars
<1> QED
  BY <1>1, <1>2, <1>3, <1>4, <1>5, <1>6, <1>7, <1>8, <1>9 DEF Next

\* Every step leaves every request at a stage of its operation.
LEMMA StageStep == IInv /\ [Next]_vars => \A r \in Request : Stage(r)'
<1> SUFFICES ASSUME TypeOK, \A r \in Request : Stage(r), [Next]_vars, NEW q \in Request
             PROVE  Stage(q)'
  BY DEF IInv
<1> USE DEF TypeOK, NoParams, Stage
<1>1. ASSUME NEW r \in Request, RequestEmail(r) \/ PresentToken(r) \/ RequestChange(r)
      PROVE Stage(q)'
  BY <1>1 DEF RequestEmail, PresentToken, RequestChange
<1>2. ASSUME NEW r \in Request, Deliver(r) PROVE Stage(q)'
  BY <1>2 DEF Deliver, Params
<1>3. ASSUME NEW r \in Request, Finish(r) PROVE Stage(q)'
  BY <1>3
<1>4. ASSUME NEW r \in Request, CommitChange(r) PROVE Stage(q)'
  BY <1>4 DEF CommitChange, SendBestEffort, Scanned, Params
<1>5. ASSUME NEW r \in Request, ScanTokens(r) \/ LockToken(r) \/ LockUserRow(r)
      PROVE Stage(q)'
  BY <1>5 DEF ScanTokens, LockToken, LockUserRow
<1>6. ASSUME UNCHANGED <<pc, req>> PROVE Stage(q)'
  BY <1>6
<1> QED
  BY <1>1, <1>2, <1>3, <1>4, <1>5, <1>6
  DEF Next, InsertToken, RetireToken, RefuseToken, CommitVerification, Abort, ExpireToken,
      vars

\* Nobody takes the users row, or a token, from the request that has it.
LEMMA UserHeldStep == IInv /\ [Next]_vars => \A r \in Request : UserHeld(r)'
<1> SUFFICES ASSUME TypeOK, \A r \in Request : Stage(r), \A r \in Request : UserHeld(r),
                    [Next]_vars, NEW q \in Request
             PROVE  UserHeld(q)'
  BY DEF IInv
<1> USE DEF TypeOK, NoParams, Stage, UserHeld
<1>1. ASSUME NEW r \in Request, RequestEmail(r) \/ PresentToken(r) \/ RequestChange(r)
      PROVE UserHeld(q)'
  BY <1>1 DEF RequestEmail, PresentToken, RequestChange
<1>2. ASSUME NEW r \in Request, Deliver(r) PROVE UserHeld(q)'
  BY <1>2 DEF Deliver, Params
<1>3. ASSUME NEW r \in Request, Finish(r), address' = address PROVE UserHeld(q)'
  BY <1>3 DEF Release
<1>4. ASSUME NEW r \in Request, CommitChange(r) PROVE UserHeld(q)'
  BY <1>4 DEF CommitChange, SendBestEffort, Scanned, Params, Release
<1>5. ASSUME NEW r \in Request, ScanTokens(r) \/ LockToken(r) PROVE UserHeld(q)'
  BY <1>5 DEF ScanTokens, LockToken
<1>6. ASSUME NEW r \in Request, LockUserRow(r) PROVE UserHeld(q)'
  BY <1>6 DEF LockUserRow, Unlocked
<1>7. ASSUME UNCHANGED <<address, pc, req, userLock>> PROVE UserHeld(q)'
  BY <1>7
<1> QED
  BY <1>1, <1>2, <1>3, <1>4, <1>5, <1>6, <1>7
  DEF Next, InsertToken, RetireToken, RefuseToken, CommitVerification, Abort, ExpireToken,
      vars

\* Every step leaves the presented links among those that were mailed.
LEMMA PresentedStep == IInv /\ [Next]_vars => \A r \in Request : PresentedWasMailed(r)'
<1> SUFFICES ASSUME TypeOK, \A r \in Request : Stage(r), [Next]_vars, NEW q \in Request,
                    \A r \in Request : PresentedWasMailed(r)
             PROVE  PresentedWasMailed(q)'
  BY DEF IInv
<1> USE DEF TypeOK, NoParams, Stage, PresentedWasMailed
<1>1. ASSUME NEW r \in Request, RequestEmail(r) \/ PresentToken(r) \/ RequestChange(r)
      PROVE PresentedWasMailed(q)'
  BY <1>1 DEF RequestEmail, PresentToken, RequestChange
<1>2. ASSUME NEW r \in Request, Deliver(r) PROVE PresentedWasMailed(q)'
  BY <1>2 DEF Deliver, Params
<1>3. ASSUME NEW r \in Request, Finish(r), mailedTo' = mailedTo PROVE PresentedWasMailed(q)'
  BY <1>3
<1>4. ASSUME NEW r \in Request, CommitChange(r) PROVE PresentedWasMailed(q)'
  BY <1>4 DEF CommitChange, SendBestEffort, Scanned, Params
<1>5. ASSUME NEW r \in Request, ScanTokens(r) \/ LockToken(r) \/ LockUserRow(r)
      PROVE PresentedWasMailed(q)'
  BY <1>5 DEF ScanTokens, LockToken, LockUserRow
<1>6. ASSUME UNCHANGED <<req, mailedTo>> PROVE PresentedWasMailed(q)'
  BY <1>6
<1> QED
  BY <1>1, <1>2, <1>3, <1>4, <1>5, <1>6
  DEF Next, InsertToken, RetireToken, RefuseToken, CommitVerification, Abort, ExpireToken,
      vars

\* A completion keeps the token it locked.
LEMMA TokenHeldStep == IInv /\ [Next]_vars => \A r \in Request : TokenHeld(r)'
<1> SUFFICES ASSUME TypeOK, \A r \in Request : Stage(r), \A r \in Request : TokenHeld(r),
                    [Next]_vars, NEW q \in Request
             PROVE  TokenHeld(q)'
  BY DEF IInv
<1> USE DEF TypeOK, NoParams, Stage, TokenHeld
<1>1. ASSUME NEW r \in Request, RequestEmail(r) \/ PresentToken(r) \/ RequestChange(r)
      PROVE TokenHeld(q)'
  BY <1>1 DEF RequestEmail, PresentToken, RequestChange
<1>2. ASSUME NEW r \in Request, Deliver(r) PROVE TokenHeld(q)'
  BY <1>2 DEF Deliver, Params
<1>3. ASSUME NEW r \in Request, Finish(r) PROVE TokenHeld(q)'
  BY <1>3 DEF Release
<1>4. ASSUME NEW r \in Request, CommitChange(r) PROVE TokenHeld(q)'
  BY <1>4 DEF CommitChange, SendBestEffort, Scanned, Params, Release
<1>5. ASSUME NEW r \in Request, ScanTokens(r) \/ LockUserRow(r) PROVE TokenHeld(q)'
  BY <1>5 DEF ScanTokens, LockUserRow
<1>6. ASSUME NEW r \in Request, LockToken(r) \/ RetireToken(r) PROVE TokenHeld(q)'
  BY <1>6 DEF LockToken, RetireToken
<1>7. ASSUME UNCHANGED <<pc, req, tokenLock>> PROVE TokenHeld(q)'
  BY <1>7
<1> QED
  BY <1>1, <1>2, <1>3, <1>4, <1>5, <1>6, <1>7
  DEF Next, InsertToken, RefuseToken, CommitVerification, Abort, ExpireToken, vars

\* Expiry aside, a token changes only when a request that has it, or is to
\* insert it, commits.
LEMMA OnlyCommitsWriteTokens ==
  ASSUME TypeOK, NEW r \in Request, NEW own, NEW t \in Token,
         token' = TokensAfter(r, own), tokenLock[t] # r, t # req[r].token
  PROVE  token'[t] = token[t]
  BY DEF TypeOK, TokensAfter

Commits(r) == InsertToken(r) \/ CommitVerification(r) \/ CommitChange(r)

\* A row lock is only ever on an open token.
LEMMA LocksStep == IInv /\ [Next]_vars => LocksAreOnOpen'
<1> SUFFICES ASSUME IInv, [Next]_vars PROVE LocksAreOnOpen'
  OBVIOUS
<1>0. /\ TypeOK /\ (\A r \in Request : Stage(r)) /\ LocksAreOnOpen /\ IssuesApart
      /\ \A r \in Request : TokenHeld(r)
  BY DEF IInv
<1> USE <1>0 DEF LocksAreOnOpen
<1>1. ASSUME NEW r \in Request, RefuseToken(r) \/ Abort(r) PROVE LocksAreOnOpen'
  BY <1>1 DEF RefuseToken, Abort, Release, Open, TypeOK
<1>2. ASSUME NEW r \in Request, RetireToken(r) \/ LockToken(r) PROVE LocksAreOnOpen'
  BY <1>2 DEF RetireToken, LockToken, Acceptable, Open, TypeOK, Stage
<1>3. ASSUME NEW r \in Request, Commits(r) PROVE LocksAreOnOpen'
  <2> SUFFICES ASSUME NEW t \in Token, tokenLock'[t] # None PROVE Open(t)'
    OBVIOUS
  <2>1. tokenLock[t] # r /\ tokenLock[t] # None
    BY <1>3 DEF Commits, InsertToken, CommitVerification, CommitChange, Release, TypeOK
  <2>2. t # req[r].token
    BY <1>3, <2>1 DEF Commits, InsertToken, CommitVerification, CommitChange, Scanned,
                      IssuesApart, TokenHeld, Open, Stage
  <2>3. token'[t] = token[t]
    BY <1>3, <2>1, <2>2, OnlyCommitsWriteTokens
    DEF Commits, InsertToken, CommitVerification, CommitChange
  <2> QED
    BY <2>1, <2>3 DEF Open
<1>4. ASSUME NEW t \in Token, ExpireToken(t) PROVE LocksAreOnOpen'
  BY <1>4 DEF ExpireToken, Open, TypeOK
<1>5. ASSUME UNCHANGED <<token, tokenLock>> PROVE LocksAreOnOpen'
  BY <1>5 DEF Open
<1> QED
  BY <1>1, <1>2, <1>3, <1>4, <1>5
  DEF Next, Commits, RequestEmail, Deliver, ScanTokens, PresentToken, RequestChange,
      LockUserRow, vars

\* The tokens to be inserted stay absent, each issue's its own.
LEMMA IssuesStep == IInv /\ [Next]_vars => IssuesApart'
<1> SUFFICES ASSUME IInv, [Next]_vars PROVE IssuesApart'
  OBVIOUS
<1>0. /\ TypeOK /\ (\A r \in Request : Stage(r)) /\ LocksAreOnOpen /\ IssuesApart
      /\ \A r \in Request : TokenHeld(r)
  BY DEF IInv
<1> USE <1>0
<1>1. ASSUME NEW r \in Request, RequestEmail(r) \/ PresentToken(r) \/ RequestChange(r)
      PROVE IssuesApart'
  BY <1>1 DEF RequestEmail, PresentToken, RequestChange, IssuesApart, TypeOK
<1>2. ASSUME NEW r \in Request, Deliver(r) PROVE IssuesApart'
  <2>1. PICK t \in Token : /\ Fresh(t) /\ mailedTo' = [mailedTo EXCEPT ![t] = req[r].to]
                           /\ req' = [req EXCEPT ![r] = [req[r] EXCEPT !.token = t]]
    BY <1>2 DEF Deliver
  <2>2. req[r].op = "issue" /\ req[r].to \in Address /\ pc[r] # "idle" /\ UNCHANGED token
    BY <1>2 DEF Deliver, Stage
  <2>3. req'[r].op = "issue" /\ req'[r].token = t
    BY <2>1, <2>2 DEF TypeOK, Params
  <2>4. \A q \in Request \ {r} : req'[q] = req[q]
    BY <2>1 DEF TypeOK
  <2>5. \A q \in Request \ {r} : req[q].op = "issue" => req[q].token # t
    BY <2>1 DEF Fresh, NoParams
  <2>6. \A u \in Token : mailedTo[u] # None => mailedTo'[u] # None
    BY <2>1, <2>2 DEF TypeOK
  <2>7. mailedTo'[t] # None /\ token[t] = "absent"
    BY <2>1, <2>2 DEF TypeOK, Fresh
  <2>8. \A q \in Request : req[q].op = "issue" /\ req[q].token # None => req[q].token \in Token
    BY DEF Stage, NoParams, TypeOK, Params
  <2> QED
    BY <2>2, <2>3, <2>4, <2>5, <2>6, <2>7, <2>8 DEF IssuesApart
<1>3. ASSUME NEW r \in Request, RefuseToken(r) \/ Abort(r) PROVE IssuesApart'
  BY <1>3 DEF RefuseToken, Abort, IssuesApart, TypeOK, NoParams
<1>4. ASSUME NEW r \in Request, Commits(r) PROVE IssuesApart'
  <2>1. \A q \in Request : req'[q].op = "issue" /\ req'[q].token # None =>
           q # r /\ req'[q] = req[q]
    BY <1>4 DEF Commits, InsertToken, CommitVerification, CommitChange, SendBestEffort,
                Scanned, TypeOK, Stage, NoParams, Params
  <2>2. ASSUME NEW q \in Request, q # r, req[q].op = "issue", req[q].token # None
        PROVE  token'[req[q].token] = "absent"
    <3>1. req[q].token \in Token /\ token[req[q].token] = "absent"
      BY <2>2 DEF IssuesApart, Stage, TypeOK, Params, NoParams
    <3>2. tokenLock[req[q].token] # r
      BY <3>1 DEF LocksAreOnOpen, Open
    <3>3. req[q].token # req[r].token
      BY <1>4, <2>2, <3>1, <3>2 DEF Commits, InsertToken, CommitVerification, CommitChange,
                              Scanned, IssuesApart, TokenHeld, Stage
    <3> QED
      BY <1>4, <3>1, <3>2, <3>3, OnlyCommitsWriteTokens
      DEF Commits, InsertToken, CommitVerification, CommitChange
  <2>3. UNCHANGED mailedTo
    BY <1>4 DEF Commits, InsertToken, CommitVerification, CommitChange
  <2> QED
    BY <2>1, <2>2, <2>3 DEF IssuesApart
<1>5. ASSUME NEW t \in Token, ExpireToken(t) PROVE IssuesApart'
  BY <1>5 DEF ExpireToken, IssuesApart, TypeOK
<1>6. ASSUME UNCHANGED <<token, mailedTo>>,
             UNCHANGED req \/ \E r \in Request : req' = [req EXCEPT ![r] = req[r]]
      PROVE  IssuesApart'
  BY <1>6 DEF IssuesApart, TypeOK
<1> QED
  BY <1>1, <1>2, <1>3, <1>4, <1>5, <1>6
  DEF Next, Commits, ScanTokens, RetireToken, LockToken, LockUserRow, vars

\* No open token appears that the UPDATE of a request with the strong lock did
\* not see.
LEMMA ScanStep == IInv /\ [Next]_vars => \A r \in Request : ScanCovers(r)'
<1> SUFFICES ASSUME IInv, [Next]_vars, NEW q \in Request PROVE ScanCovers(q)'
  OBVIOUS
<1>0. /\ TypeOK /\ (\A r \in Request : Stage(r)) /\ (\A r \in Request : ScanCovers(r))
      /\ (\A r \in Request : UserHeld(r)) /\ (\A r \in Request : TokenHeld(r))
      /\ LocksAreOnOpen
  BY DEF IInv
<1> USE <1>0 DEF ScanCovers
<1>1. ASSUME NEW r \in Request, RequestEmail(r) \/ PresentToken(r) \/ RequestChange(r)
      PROVE ScanCovers(q)'
  BY <1>1 DEF RequestEmail, PresentToken, RequestChange, TypeOK, Open
<1>2. ASSUME NEW r \in Request, Deliver(r) PROVE ScanCovers(q)'
  BY <1>2 DEF Deliver, TypeOK, Open
<1>3. ASSUME NEW r \in Request, RefuseToken(r) \/ Abort(r) PROVE ScanCovers(q)'
  BY <1>3 DEF RefuseToken, Abort, Release, TypeOK, Open, Unlocked
<1>4. ASSUME NEW r \in Request, Commits(r) PROVE ScanCovers(q)'
  <2> SUFFICES ASSUME pc'[q] = "retire", userLock' = [by |-> q, mode |-> "update"],
                      NEW t \in Token \ {req'[q].token}, Open(t)'
               PROVE  t \in left'[q] \/ tokenLock'[t] = q
    OBVIOUS
  <2>1. /\ q # r /\ req'[q] = req[q] /\ pc'[q] = pc[q] /\ left'[q] = left[q]
        /\ tokenLock[t] = q => tokenLock'[t] = q
    BY <1>4 DEF Commits, InsertToken, CommitVerification, CommitChange, SendBestEffort,
                Release, TypeOK
  <2>2. userLock' = userLock
    BY <1>4, <2>1 DEF Commits, InsertToken, CommitVerification, CommitChange, Release,
                      TypeOK, Unlocked
  <2>3. Open(t)
    BY <1>4, <2>1, <2>2 DEF Commits, InsertToken, CommitVerification, CommitChange,
                            TokensAfter, Open
  <2> QED
    BY <2>1, <2>2, <2>3
<1>5. ASSUME NEW r \in Request, ScanTokens(r) PROVE ScanCovers(q)'
  BY <1>5 DEF ScanTokens, TypeOK, Open
<1>6. ASSUME NEW r \in Request, RetireToken(r) PROVE ScanCovers(q)'
  BY <1>6 DEF RetireToken, TypeOK, Open
<1>7. ASSUME NEW r \in Request, LockToken(r) PROVE ScanCovers(q)'
  BY <1>7 DEF LockToken, TypeOK, Open
<1>8. ASSUME NEW r \in Request, LockUserRow(r) PROVE ScanCovers(q)'
  BY <1>8 DEF LockUserRow, TypeOK, Open, Unlocked
<1>9. ASSUME NEW t \in Token, ExpireToken(t) PROVE ScanCovers(q)'
  BY <1>9 DEF ExpireToken, TypeOK, Open
<1>10. ASSUME UNCHANGED vars PROVE ScanCovers(q)'
  BY <1>10 DEF vars, Open
<1> QED
  BY <1>1, <1>2, <1>3, <1>4, <1>5, <1>6, <1>7, <1>8, <1>9, <1>10 DEF Next, Commits

\* The invariant holds in every behaviour of issues, completions and changes of
\* address.
THEOREM Invariance == Spec => []IInv
<1>1. IInv /\ [Next]_vars => IInv'
  BY TypeStep, StageStep, UserHeldStep, TokenHeldStep, PresentedStep, LocksStep,
     IssuesStep, ScanStep
  DEF IInv
<1> QED
  BY InitInv, <1>1, PTL DEF Spec

-----------------------------------------------------------------------------
\* Type correctness of the account, its tokens and the requests.
THEOREM TypeCorrect == Spec => []TypeOK
<1>1. IInv => TypeOK
  BY DEF IInv
<1> QED
  BY Invariance, <1>1, PTL

\* The steps that write the account or count a verification.
LEMMA AccountWriters ==
  [Next]_vars => \/ UNCHANGED <<address, completed>>
                 \/ \E r \in Request : CommitVerification(r)
                 \/ \E r \in Request : CommitChange(r) /\ UNCHANGED completed
  BY DEF Next, RequestEmail, Deliver, InsertToken, ScanTokens, RetireToken, PresentToken,
         LockToken, RefuseToken, RequestChange, LockUserRow, CommitChange, Abort,
         ExpireToken, vars

\* A token verifies only while it is open, and whoever verifies the account or
\* moves it to another address leaves no token open (completeVerification and
\* changeEmail).
THEOREM AccountWritesKept == Spec => AccountWritesRetireAll
<1> DEFINE Retires == /\ \A t \in Token : completed'[t] # completed[t] => Open(t)
                      /\ address' # address \/ completed' # completed
                            => \A t \in Token : ~Open(t)'
<1>1. IInv /\ [Next]_vars => [Retires]_vars
  <2> SUFFICES ASSUME IInv, [Next]_vars PROVE Retires
    OBVIOUS
  <2>1. CASE UNCHANGED <<address, completed>>
    BY <2>1
  <2>2. ASSUME NEW r \in Request, CommitVerification(r) PROVE Retires
    <3>1. req[r].token \in Token /\ req[r].to = None /\ tokenLock[req[r].token] = r
      BY <2>2 DEF CommitVerification, Scanned, IInv, Stage, TokenHeld
    <3>2. Open(req[r].token)
      BY <3>1 DEF IInv, LocksAreOnOpen
    <3>3. userLock = [by |-> r, mode |-> "update"]
      BY <2>2, <3>1 DEF CommitVerification, Scanned, IInv, UserHeld, TypeOK
    <3>4. \A t \in Token \ {req[r].token} : Open(t) => tokenLock[t] = r
      BY <2>2, <3>3 DEF CommitVerification, Scanned, IInv, ScanCovers
    <3>5. \A t \in Token : ~Open(t)'
      BY <2>2, <3>4 DEF CommitVerification, TokensAfter, Open
    <3>6. \A t \in Token : completed'[t] # completed[t] => t = req[r].token
      BY <2>2 DEF CommitVerification, IInv, TypeOK
    <3> QED
      BY <3>2, <3>5, <3>6
  <2>3. ASSUME NEW r \in Request, CommitChange(r), UNCHANGED completed, address' # address
        PROVE  \A t \in Token : ~Open(t)'
    <3>1. req[r].token = None /\ req[r].to # address
      BY <2>3 DEF CommitChange, Scanned, IInv, Stage
    <3>2. userLock = [by |-> r, mode |-> "update"]
      BY <2>3, <3>1 DEF CommitChange, Scanned, IInv, UserHeld, TypeOK
    <3>3. \A t \in Token : Open(t) => tokenLock[t] = r
      BY <2>3, <3>1, <3>2 DEF CommitChange, Scanned, IInv, ScanCovers
    <3> QED
      BY <2>3, <3>1, <3>3 DEF CommitChange, TokensAfter, Open
  <2> QED
    BY <2>1, <2>2, <2>3, AccountWriters
<1> QED
  BY Invariance, <1>1, PTL DEF Spec, AccountWritesRetireAll

\* An open token is retired only by a completion, by a change of address, or
\* for a token that was mailed (issueAndSendVerificationEmail).
THEOREM NobodyStranded == Spec => NobodyIsStranded
<1> DEFINE Replaced ==
       \A t \in Token : Open(t) /\ token'[t] = "retired" =>
          \/ \E r \in Request : Scanned(r, "change")
          \/ completed' # completed
          \/ \E u \in Token : Open(u)' /\ mailedTo[u] # None
<1>1. IInv /\ [Next]_vars => [Replaced]_vars
  <2> SUFFICES ASSUME IInv, [Next]_vars, NEW t \in Token, Open(t), token'[t] = "retired"
               PROVE  \/ \E r \in Request : Scanned(r, "change")
                      \/ completed' # completed
                      \/ \E u \in Token : Open(u)' /\ mailedTo[u] # None
    OBVIOUS
  <2>1. ASSUME NEW r \in Request, InsertToken(r)
        PROVE  \E u \in Token : Open(u)' /\ mailedTo[u] # None
    <3>1. req[r].token \in Token /\ mailedTo[req[r].token] # None
      BY <2>1 DEF InsertToken, Scanned, IInv, Stage, IssuesApart
    <3>2. token'[req[r].token] = "usable"
      BY <2>1, <3>1 DEF InsertToken, TokensAfter
    <3> QED
      BY <3>1, <3>2 DEF Open
  <2>2. ASSUME NEW r \in Request, CommitVerification(r) PROVE completed' # completed
    <3>1. req[r].token \in Token /\ completed[req[r].token] \in Nat
      BY <2>2 DEF CommitVerification, Scanned, IInv, Stage, TypeOK
    <3> QED
      BY <2>2, <3>1 DEF CommitVerification, IInv, TypeOK
  <2>3. ASSUME NEW r \in Request, CommitChange(r) PROVE Scanned(r, "change")
    BY <2>3 DEF CommitChange
  <2>4. ASSUME NEW u \in Token, ExpireToken(u) PROVE FALSE
    BY <2>4 DEF ExpireToken, IInv, TypeOK, Open
  <2>5. token' # token
    BY DEF Open
  <2> QED
    BY <2>1, <2>2, <2>3, <2>4, <2>5
    DEF Next, RequestEmail, Deliver, ScanTokens, RetireToken, PresentToken, LockToken,
        RefuseToken, RequestChange, LockUserRow, Abort, vars
<1> QED
  BY Invariance, <1>1, PTL DEF Spec, NobodyIsStranded
=============================================================================
