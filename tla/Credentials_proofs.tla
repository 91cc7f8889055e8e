------------------------- MODULE Credentials_proofs -------------------------
(***************************************************************************)
(* The reset tokens and sessions of one account, for any number of         *)
(* sessions, tokens, password changes and concurrent requests.             *)
(*                                                                         *)
(* Everything rests on the users row.  Whoever inserts a reset token, or   *)
(* retires some, has it FOR UPDATE from the statement before to its        *)
(* commit, so no usable token appears behind the back of a request that    *)
(* has retired what it saw, and no session behind a reset that has updated *)
(* what it saw.  A token's own lock keeps it open for the completion that  *)
(* was let through.                                                        *)
(***************************************************************************)
EXTENDS Credentials, TLAPS

USE NoneAssumption DEF Start, Goto, rows, locks, notes

\* The domains of the variables, numbers aside.
Shape ==
    /\ live \subseteq opened
    /\ reset \in [ResetToken -> ResetStates]
    /\ userLock \in [by : Request \cup {None}, mode : {"none", "nokey", "update"}]
    /\ tokenLock \in [ResetToken -> Request \cup {None}]
    /\ pc \in [Request -> {"idle", "verified", "token", "user", "tokens", "sessions",
                        "commit"}]
    /\ DOMAIN req = Request /\ DOMAIN doomed = Request
    /\ DOMAIN witnessed = Request /\ DOMAIN completed = ResetToken

\* Which request stands where.
Stage(r) ==
    /\ pc[r] = "idle" => req[r] = NoParams
    /\ pc[r] = "verified" => req[r].op \in {"login", "change"}
    /\ pc[r] = "token" => req[r].op = "complete"
    /\ pc[r] \in {"user", "tokens"} => req[r].op \in {"issue", "complete"}
    /\ pc[r] = "sessions" => req[r].op \in {"change", "complete"}
    /\ pc[r] = "commit" => req[r].op \in {"change", "issue", "complete"}
    /\ req[r].op \in {"issue", "complete"} => req[r].token \in ResetToken

Resetting(r) == req[r].op \in {"issue", "complete"}

\* A request that has got the users row keeps it to its end.
UserHeld(r) ==
    /\ pc[r] \in {"tokens", "sessions", "commit"} /\ Resetting(r)
          => userLock = [by |-> r, mode |-> "update"]
    /\ pc[r] \in {"sessions", "commit"} /\ req[r].op = "change"
          => userLock = [by |-> r, mode |-> "nokey"]

\* A completion that was let through has its token.
TokenHeld(r) ==
    pc[r] \in {"user", "tokens", "sessions", "commit"} /\ req[r].op = "complete"
       => tokenLock[req[r].token] = r

\* Only open tokens are locked; those to be inserted are not there yet.
LocksAreOnOpen == \A t \in ResetToken : tokenLock[t] # None => Open(t)

IssuesApart ==
    \A r \in Request : req[r].op = "issue" =>
        /\ reset[req[r].token] = "absent"
        /\ \A q \in Request \ {r} : req[q].op = "issue" => req[q].token # req[r].token

\* Once it has retired the siblings, no other token is open but those.
SiblingsHeld(r) ==
    pc[r] \in {"sessions", "commit"} /\ Resetting(r) =>
        \A t \in ResetToken \ {req[r].token} : Open(t) => tokenLock[t] = r

\* What a transaction is about to end covers what it must.
DoomedCovers(r) ==
    /\ witnessed[r] \subseteq opened
    /\ pc[r] = "commit" /\ req[r].op = "complete" => live \subseteq doomed[r]
    /\ pc[r] = "commit" /\ req[r].op = "change" =>
          live \cap (witnessed[r] \ {req[r].own}) \subseteq doomed[r]

IInv ==
    /\ Shape
    /\ \A r \in Request : Stage(r)
    /\ \A r \in Request : UserHeld(r)
    /\ \A r \in Request : TokenHeld(r)
    /\ LocksAreOnOpen
    /\ IssuesApart
    /\ \A r \in Request : SiblingsHeld(r)
    /\ \A r \in Request : DoomedCovers(r)
    /\ OneOpenReset

\* The initial states satisfy the invariant.
LEMMA InitInv == Init => IInv
  BY DEF Init, IInv, Shape, Stage, NoParams, UserHeld, Resetting,
         TokenHeld, LocksAreOnOpen, IssuesApart, SiblingsHeld, DoomedCovers,
         OneOpenReset, Open, ResetStates, Unlocked

\* Every step keeps the domains.
LEMMA ShapeStep == IInv /\ [Next]_vars => Shape'
<1> SUFFICES ASSUME IInv, [Next]_vars PROVE Shape'
  OBVIOUS
<1>0. Shape /\ \A r \in Request : Stage(r)
  BY DEF IInv
<1> USE <1>0 DEF Shape
<1>1. ASSUME NEW r \in Request, VerifyLogin(r) \/ VerifyCurrent(r) \/ RequestReset(r)
                                \/ PresentToken(r) PROVE Shape'
  BY <1>1 DEF VerifyLogin, VerifyCurrent, RequestReset, PresentToken
<1>2. ASSUME NEW r \in Request, InsertSession(r) \/ CommitChange(r) \/ RefuseToken(r)
                                \/ Abort(r) PROVE Shape'
  BY <1>2 DEF InsertSession, CommitChange, RefuseToken, Abort, Finish, Unlocked
<1>3. ASSUME NEW r \in Request, UpdateHash(r) \/ LockUserRow(r) PROVE Shape'
  BY <1>3 DEF UpdateHash, LockUserRow, LockUser
<1>4. ASSUME NEW r \in Request, DoomOthers(r) \/ DoomAll(r) PROVE Shape'
  BY <1>4 DEF DoomOthers, DoomAll
<1>5. ASSUME NEW r \in Request, RetireSiblings(r) \/ LockResetToken(r) PROVE Shape'
  BY <1>5 DEF RetireSiblings, LockResetToken
<1>6. ASSUME NEW r \in Request, CommitIssue(r) \/ CommitReset(r) PROVE Shape'
  BY <1>6 DEF CommitIssue, CommitReset, ResetAfter, ResetStates, Finish, Unlocked
<1>7. CASE (\E s \in Session : EndSession(s)) \/ (\E t \in ResetToken : ExpireToken(t))
  BY <1>7 DEF EndSession, ExpireToken, ResetStates
<1>8. CASE UNCHANGED vars
  BY <1>8 DEF vars
<1> QED
  BY <1>1, <1>2, <1>3, <1>4, <1>5, <1>6, <1>7, <1>8 DEF Next

\* Every step leaves every request at a stage of its operation.
LEMMA StageStep == IInv /\ [Next]_vars => \A r \in Request : Stage(r)'
<1> SUFFICES ASSUME IInv, [Next]_vars, NEW q \in Request PROVE Stage(q)'
  OBVIOUS
<1>0. Shape /\ \A r \in Request : Stage(r)
  BY DEF IInv
<1> USE <1>0 DEF Shape, Stage, NoParams
<1>1. ASSUME NEW r \in Request, VerifyLogin(r) \/ VerifyCurrent(r) \/ RequestReset(r)
                                \/ PresentToken(r) PROVE Stage(q)'
  BY <1>1 DEF VerifyLogin, VerifyCurrent, RequestReset, PresentToken
<1>2. ASSUME NEW r \in Request, Finish(r) PROVE Stage(q)'
  BY <1>2 DEF Finish
<1>3. ASSUME NEW r \in Request, UpdateHash(r) \/ LockUserRow(r) \/ DoomOthers(r) \/ DoomAll(r)
                                \/ RetireSiblings(r) \/ LockResetToken(r) PROVE Stage(q)'
  BY <1>3 DEF UpdateHash, LockUserRow, DoomOthers, DoomAll, RetireSiblings, LockResetToken
<1>4. ASSUME UNCHANGED <<pc, req>> PROVE Stage(q)'
  BY <1>4
<1> QED
  BY <1>1, <1>2, <1>3, <1>4
  DEF Next, InsertSession, CommitChange, RefuseToken, Abort, CommitIssue, CommitReset,
      EndSession, ExpireToken, vars

\* Nobody takes the users row, or a token, from the request that has it.
LEMMA UserHeldStep == IInv /\ [Next]_vars => \A r \in Request : UserHeld(r)'
<1> SUFFICES ASSUME IInv, [Next]_vars, NEW q \in Request
             PROVE  UserHeld(q)'
  OBVIOUS
<1>0. Shape /\ (\A r \in Request : Stage(r)) /\ (\A r \in Request : UserHeld(r))
  BY DEF IInv
<1> USE <1>0 DEF Shape, UserHeld, Resetting, Stage, NoParams, Unlocked
<1>1. ASSUME NEW r \in Request, VerifyLogin(r) \/ VerifyCurrent(r) \/ RequestReset(r)
                                \/ PresentToken(r) PROVE UserHeld(q)'
  BY <1>1 DEF VerifyLogin, VerifyCurrent, RequestReset, PresentToken
<1>2. ASSUME NEW r \in Request, Finish(r) PROVE UserHeld(q)'
  BY <1>2 DEF Finish
<1>3. ASSUME NEW r \in Request, UpdateHash(r) \/ LockUserRow(r) PROVE UserHeld(q)'
  BY <1>3 DEF UpdateHash, LockUserRow, LockUser
<1>4. ASSUME NEW r \in Request, DoomOthers(r) \/ DoomAll(r) \/ RetireSiblings(r)
                                \/ LockResetToken(r) PROVE UserHeld(q)'
  BY <1>4 DEF DoomOthers, DoomAll, RetireSiblings, LockResetToken
<1>5. ASSUME UNCHANGED <<pc, req, userLock>> PROVE UserHeld(q)'
  BY <1>5
<1> QED
  BY <1>1, <1>2, <1>3, <1>4, <1>5
  DEF Next, InsertSession, CommitChange, RefuseToken, Abort, CommitIssue, CommitReset,
      EndSession, ExpireToken, vars

\* A completion keeps the token it locked, open until its own commit.
LEMMA TokenHeldStep == IInv /\ [Next]_vars => \A r \in Request : TokenHeld(r)'
<1> SUFFICES ASSUME IInv, [Next]_vars, NEW q \in Request
             PROVE  TokenHeld(q)'
  OBVIOUS
<1>0. Shape /\ (\A r \in Request : Stage(r)) /\ (\A r \in Request : TokenHeld(r))
  BY DEF IInv
<1> USE <1>0 DEF Shape, TokenHeld, Stage, NoParams
<1>1. ASSUME NEW r \in Request, VerifyLogin(r) \/ VerifyCurrent(r) \/ RequestReset(r)
                                \/ PresentToken(r) PROVE TokenHeld(q)'
  BY <1>1 DEF VerifyLogin, VerifyCurrent, RequestReset, PresentToken
<1>2. ASSUME NEW r \in Request, Finish(r) PROVE TokenHeld(q)'
  BY <1>2 DEF Finish
<1>3. ASSUME NEW r \in Request, UpdateHash(r) \/ LockUserRow(r) \/ DoomOthers(r) \/ DoomAll(r)
             PROVE TokenHeld(q)'
  BY <1>3 DEF UpdateHash, LockUserRow, DoomOthers, DoomAll
<1>4. ASSUME NEW r \in Request, RetireSiblings(r) PROVE TokenHeld(q)'
  BY <1>4 DEF RetireSiblings, Siblings
<1>5. ASSUME NEW r \in Request, LockResetToken(r) PROVE TokenHeld(q)'
  BY <1>5 DEF LockResetToken
<1>6. ASSUME UNCHANGED <<pc, req, tokenLock>> PROVE TokenHeld(q)'
  BY <1>6
<1> QED
  BY <1>1, <1>2, <1>3, <1>4, <1>5, <1>6
  DEF Next, InsertSession, CommitChange, RefuseToken, Abort, CommitIssue, CommitReset,
      EndSession, ExpireToken, vars

\* Expiry aside, a reset token changes only when a request that has it, or is to
\* insert it, commits.
LEMMA OnlyCommitsWriteTokens ==
  ASSUME Shape, NEW r \in Request, NEW own, NEW t \in ResetToken,
         reset' = ResetAfter(r, own), tokenLock[t] # r, t # req[r].token
  PROVE  reset'[t] = reset[t]
  BY DEF Shape, ResetAfter, Retired

\* A row lock is only ever on an open token.
LEMMA LocksStep == IInv /\ [Next]_vars => LocksAreOnOpen'
<1> SUFFICES ASSUME IInv, [Next]_vars PROVE LocksAreOnOpen'
  OBVIOUS
<1>0. /\ Shape /\ (\A r \in Request : Stage(r)) /\ LocksAreOnOpen /\ IssuesApart
      /\ \A r \in Request : TokenHeld(r)
  BY DEF IInv
<1> USE <1>0 DEF LocksAreOnOpen
<1>1. ASSUME NEW r \in Request, UNCHANGED reset, Finish(r) PROVE LocksAreOnOpen'
  BY <1>1 DEF Finish, Open, Shape
<1>2. ASSUME NEW r \in Request, RetireSiblings(r) PROVE LocksAreOnOpen'
  BY <1>2 DEF RetireSiblings, Siblings, Open, Shape
<1>3. ASSUME NEW r \in Request, LockResetToken(r) PROVE LocksAreOnOpen'
  BY <1>3 DEF LockResetToken, Acceptable, Open, Shape, Stage
<1>4. ASSUME NEW r \in Request, CommitIssue(r) \/ CommitReset(r) PROVE LocksAreOnOpen'
  <2> SUFFICES ASSUME NEW t \in ResetToken, tokenLock'[t] # None PROVE Open(t)'
    BY DEF LocksAreOnOpen
  <2>1. tokenLock[t] # r /\ tokenLock'[t] = tokenLock[t]
    BY <1>4 DEF CommitIssue, CommitReset, Finish, Shape
  <2>2. t # req[r].token
    BY <1>4, <2>1
    DEF CommitIssue, CommitReset, IssuesApart, TokenHeld, Open, Stage
  <2>3. reset'[t] = reset[t]
    BY <1>4, <2>1, <2>2, OnlyCommitsWriteTokens DEF CommitIssue, CommitReset
  <2> QED
    BY <2>1, <2>3 DEF Open
<1>5. ASSUME NEW t \in ResetToken, ExpireToken(t) PROVE LocksAreOnOpen'
  BY <1>5 DEF ExpireToken, Open, Shape
<1>6. ASSUME UNCHANGED <<reset, tokenLock>> PROVE LocksAreOnOpen'
  BY <1>6 DEF Open
<1> QED
  BY <1>1, <1>2, <1>3, <1>4, <1>5, <1>6
  DEF Next, VerifyLogin, InsertSession, VerifyCurrent, UpdateHash, LockUser, DoomOthers,
      CommitChange, RequestReset, LockUserRow, PresentToken, RefuseToken, DoomAll, Abort,
      EndSession, vars

\* The tokens to be inserted stay absent, each issue's its own.
LEMMA IssuesStep == IInv /\ [Next]_vars => IssuesApart'
<1> SUFFICES ASSUME IInv, [Next]_vars PROVE IssuesApart'
  OBVIOUS
<1>0. /\ Shape /\ (\A r \in Request : Stage(r)) /\ LocksAreOnOpen /\ IssuesApart
      /\ \A r \in Request : TokenHeld(r)
  BY DEF IInv
<1> USE <1>0
<1>1. ASSUME NEW r \in Request, VerifyLogin(r) \/ VerifyCurrent(r) \/ PresentToken(r)
      PROVE IssuesApart'
  BY <1>1 DEF VerifyLogin, VerifyCurrent, PresentToken, IssuesApart, Shape
<1>2. ASSUME NEW r \in Request, RequestReset(r) PROVE IssuesApart'
  BY <1>2 DEF RequestReset, IssuesApart, Shape
<1>3. ASSUME NEW r \in Request, UNCHANGED reset, Finish(r) PROVE IssuesApart'
  BY <1>3 DEF Finish, IssuesApart, Shape, NoParams
<1>4. ASSUME NEW r \in Request, CommitIssue(r) \/ CommitReset(r) PROVE IssuesApart'
  <2> SUFFICES ASSUME NEW q \in Request, req'[q].op = "issue"
               PROVE  /\ reset'[req'[q].token] = "absent"
                      /\ \A x \in Request \ {q} :
                            req'[x].op = "issue" => req'[x].token # req'[q].token
    BY DEF IssuesApart
  <2>1. q # r /\ req'[q] = req[q] /\ req[q].op = "issue"
        /\ \A x \in Request : req'[x].op = "issue" => req'[x] = req[x]
    BY <1>4 DEF CommitIssue, CommitReset, Finish, Shape, NoParams
  <2>2. req[q].token \in ResetToken /\ reset[req[q].token] = "absent"
    BY <2>1 DEF IssuesApart, Stage
  <2>3. tokenLock[req[q].token] # r
    BY <2>2 DEF LocksAreOnOpen, Open
  <2>4. req[q].token # req[r].token
    BY <1>4, <2>1, <2>3 DEF CommitIssue, CommitReset, IssuesApart, TokenHeld
  <2>5. reset'[req[q].token] = "absent"
    BY <1>4, <2>2, <2>3, <2>4, OnlyCommitsWriteTokens DEF CommitIssue, CommitReset
  <2> QED
    BY <2>1, <2>5 DEF IssuesApart
<1>5. ASSUME NEW t \in ResetToken, ExpireToken(t) PROVE IssuesApart'
  BY <1>5 DEF ExpireToken, IssuesApart, Shape
<1>6. ASSUME UNCHANGED <<reset, req>> PROVE IssuesApart'
  BY <1>6 DEF IssuesApart
<1> QED
  BY <1>1, <1>2, <1>3, <1>4, <1>5, <1>6
  DEF Next, InsertSession, UpdateHash, DoomOthers, CommitChange, LockUserRow,
      RetireSiblings, LockResetToken, RefuseToken, DoomAll, Abort, EndSession, vars

\* No open token appears besides those a request has retired.
LEMMA SiblingsHeldStep ==
  IInv /\ [Next]_vars => \A r \in Request : SiblingsHeld(r)'
<1> SUFFICES ASSUME IInv, [Next]_vars, NEW q \in Request
             PROVE  SiblingsHeld(q)'
  OBVIOUS
<1>0. /\ Shape /\ (\A r \in Request : Stage(r)) /\ LocksAreOnOpen /\ IssuesApart
      /\ (\A r \in Request : UserHeld(r)) /\ (\A r \in Request : TokenHeld(r))
      /\ (\A r \in Request : SiblingsHeld(r))
  BY DEF IInv
<1> USE <1>0 DEF SiblingsHeld, Resetting
<1>1. ASSUME NEW r \in Request, VerifyLogin(r) \/ VerifyCurrent(r) \/ RequestReset(r)
                                \/ PresentToken(r) PROVE SiblingsHeld(q)'
  BY <1>1 DEF VerifyLogin, VerifyCurrent, RequestReset, PresentToken, Shape, Open
<1>2. ASSUME NEW r \in Request, UNCHANGED reset, Finish(r) PROVE SiblingsHeld(q)'
  BY <1>2 DEF Finish, Shape, Open
<1>3. ASSUME NEW r \in Request, UpdateHash(r) \/ LockUserRow(r) \/ DoomOthers(r) \/ DoomAll(r)
             PROVE SiblingsHeld(q)'
  BY <1>3 DEF UpdateHash, LockUserRow, DoomOthers, DoomAll, Shape, Open, Stage
<1>4. ASSUME NEW r \in Request, RetireSiblings(r) PROVE SiblingsHeld(q)'
  BY <1>4 DEF RetireSiblings, Siblings, Shape, Open
<1>5. ASSUME NEW r \in Request, LockResetToken(r) PROVE SiblingsHeld(q)'
  BY <1>5 DEF LockResetToken, Shape, Open, Acceptable
<1>6. ASSUME NEW r \in Request, CommitIssue(r) \/ CommitReset(r) PROVE SiblingsHeld(q)'
  <2> SUFFICES ASSUME pc'[q] \in {"sessions", "commit"}, req'[q].op \in {"issue", "complete"},
                      NEW t \in ResetToken \ {req'[q].token}, Open(t)'
               PROVE  tokenLock'[t] = q
    OBVIOUS
  <2>1. /\ q # r /\ req'[q] = req[q] /\ pc'[q] = pc[q]
        /\ \A u \in ResetToken : tokenLock[u] = q => tokenLock'[u] = q
    BY <1>6 DEF CommitIssue, CommitReset, Finish, Shape
  <2>2. CASE Open(t)
    BY <2>1, <2>2
  <2>3. CASE ~Open(t)
    \* Only the issue of r opens a token; but then r, not q, has the users row.
    BY <1>6, <2>1, <2>3 DEF CommitIssue, CommitReset, ResetAfter, UserHeld, Open
  <2> QED
    BY <2>2, <2>3
<1>7. ASSUME NEW t \in ResetToken, ExpireToken(t) PROVE SiblingsHeld(q)'
  BY <1>7 DEF ExpireToken, Shape, Open
<1>8. ASSUME UNCHANGED <<reset, tokenLock, pc, req>> PROVE SiblingsHeld(q)'
  BY <1>8 DEF Open
<1> QED
  BY <1>1, <1>2, <1>3, <1>4, <1>5, <1>6, <1>7, <1>8
  DEF Next, InsertSession, CommitChange, RefuseToken, Abort, EndSession, vars

\* What a transaction is about to end covers what it must: sessions only end
\* meanwhile, or begin where they do not count.
LEMMA DoomedStep ==
  IInv /\ [Next]_vars => \A r \in Request : DoomedCovers(r)'
<1> SUFFICES ASSUME IInv, [Next]_vars, NEW q \in Request
             PROVE  DoomedCovers(q)'
  OBVIOUS
<1>0. /\ Shape /\ (\A r \in Request : Stage(r)) /\ (\A r \in Request : UserHeld(r))
      /\ (\A r \in Request : DoomedCovers(r))
  BY DEF IInv
<1> USE <1>0 DEF DoomedCovers
<1>1. ASSUME NEW r \in Request, VerifyLogin(r) \/ VerifyCurrent(r) \/ RequestReset(r)
                                \/ PresentToken(r) PROVE DoomedCovers(q)'
  BY <1>1 DEF VerifyLogin, VerifyCurrent, RequestReset, PresentToken, Shape
<1>2. ASSUME NEW r \in Request, InsertSession(r) PROVE DoomedCovers(q)'
  BY <1>2 DEF InsertSession, Finish, Shape, UserHeld, Resetting, NoParams
<1>3. ASSUME NEW r \in Request, UpdateHash(r) \/ LockUserRow(r) PROVE DoomedCovers(q)'
  BY <1>3 DEF UpdateHash, LockUserRow, LockUser, Shape
<1>4. ASSUME NEW r \in Request, DoomOthers(r) \/ DoomAll(r) PROVE DoomedCovers(q)'
  BY <1>4 DEF DoomOthers, DoomAll, Shape
<1>5. ASSUME NEW r \in Request, RetireSiblings(r) \/ LockResetToken(r) PROVE DoomedCovers(q)'
  BY <1>5 DEF RetireSiblings, LockResetToken, Shape, Stage
<1>6. ASSUME NEW r \in Request, Finish(r), live' \subseteq live, opened' = opened
      PROVE DoomedCovers(q)'
  BY <1>6 DEF Finish, Shape, NoParams
<1>7. ASSUME live' \subseteq live, UNCHANGED <<opened, pc, req, doomed, witnessed>>
      PROVE DoomedCovers(q)'
  BY <1>7 DEF Shape
<1> QED
  BY <1>1, <1>2, <1>3, <1>4, <1>5, <1>6, <1>7
  DEF Next, CommitChange, RefuseToken, Abort, CommitIssue, CommitReset, EndSession,
      ExpireToken, vars

\* An issue has retired every other open token when its own appears.
LEMMA OneOpenStep == IInv /\ [Next]_vars => OneOpenReset'
<1> SUFFICES ASSUME IInv, [Next]_vars PROVE OneOpenReset'
  OBVIOUS
<1>0. /\ Shape /\ (\A r \in Request : Stage(r)) /\ OneOpenReset
      /\ (\A r \in Request : SiblingsHeld(r))
  BY DEF IInv
<1>1. ASSUME NEW r \in Request, CommitIssue(r) PROVE OneOpenReset'
  <2>1. ASSUME NEW t \in ResetToken, t # req[r].token PROVE ~Open(t)'
    BY <1>0, <1>1, <2>1
    DEF CommitIssue, ResetAfter, Retired, SiblingsHeld, Resetting, Open, Shape
  <2> QED
    BY <2>1 DEF OneOpenReset, Open
<1>2. ASSUME NEW r \in Request, CommitReset(r) PROVE OneOpenReset'
  <2>1. ASSUME NEW t \in ResetToken, Open(t)' PROVE Open(t)
    BY <1>0, <1>2, <2>1 DEF CommitReset, ResetAfter, Open, Shape
  <2> QED
    BY <1>0, <2>1 DEF OneOpenReset, Open
<1>3. ASSUME NEW t \in ResetToken, ExpireToken(t) PROVE OneOpenReset'
  BY <1>0, <1>3 DEF ExpireToken, OneOpenReset, Open, Shape
<1>4. ASSUME UNCHANGED reset PROVE OneOpenReset'
  BY <1>0, <1>4 DEF OneOpenReset, Open
<1> QED
  BY <1>1, <1>2, <1>3, <1>4
  DEF Next, VerifyLogin, InsertSession, VerifyCurrent, UpdateHash, DoomOthers, CommitChange,
      RequestReset, LockUserRow, RetireSiblings, PresentToken, LockResetToken, RefuseToken,
      DoomAll, Abort, EndSession, vars

\* The invariant holds in every behaviour.
LEMMA Invariance == Spec => []IInv
<1>1. IInv /\ [Next]_vars => IInv'
  BY ShapeStep, StageStep, UserHeldStep, TokenHeldStep, LocksStep, IssuesStep,
     SiblingsHeldStep, DoomedStep, OneOpenStep DEF IInv
<1> QED
  BY InitInv, <1>1, PTL DEF Spec

-----------------------------------------------------------------------------
\* Issuance serializes per user: never two reset tokens that were neither used
\* nor retired, however many issues and completions interleave
\* (password-recovery.repo.ts, issueResetToken).
THEOREM OneOpenResetKept == Spec => []OneOpenReset
  BY Invariance, PTL DEF IInv

\* A reset token that a later request retired, or that was used, never completes
\* again, not even in a transaction that read it before (completeReset).
THEOREM RetiredTokenStaysDead == Spec => RetiredTokenIsDead
<1>1. IInv /\ [Next]_vars => [CompletesOnlyOpen]_vars
  <2> SUFFICES ASSUME IInv, [Next]_vars,
                      NEW t \in ResetToken, completed'[t] # completed[t]
               PROVE  Open(t)
    BY DEF CompletesOnlyOpen
  <2>1. PICK r \in Request : CommitReset(r)
    BY DEF Next, VerifyLogin, InsertSession, VerifyCurrent, UpdateHash, DoomOthers,
           CommitChange, RequestReset, LockUserRow, RetireSiblings, CommitIssue,
           PresentToken, LockResetToken, RefuseToken, DoomAll, Abort, EndSession,
           ExpireToken, vars
  <2>2. t = req[r].token
    BY <2>1 DEF CommitReset, IInv, Shape
  <2> QED
    BY <2>1, <2>2 DEF CommitReset, IInv, TokenHeld, LocksAreOnOpen
<1> QED
  BY Invariance, <1>1, PTL DEF Spec, RetiredTokenIsDead

\* When a reset commits no session is live: it has the users row FOR UPDATE, for
\* which the foreign key of a new session waits (completeReset, issueSession).
THEOREM ResetLeavesNobody == Spec => ResetLeavesNoSession
<1>1. IInv /\ [Next]_vars => [ResetClearsSessions]_vars
  <2> SUFFICES ASSUME IInv, [Next]_vars, lastReset' # lastReset
               PROVE  live' = {}
    BY DEF ResetClearsSessions
  <2>1. PICK r \in Request : CommitReset(r)
    BY DEF Next, VerifyLogin, InsertSession, VerifyCurrent, UpdateHash, DoomOthers,
           CommitChange, RequestReset, LockUserRow, RetireSiblings, CommitIssue,
           PresentToken, LockResetToken, RefuseToken, DoomAll, Abort, EndSession,
           ExpireToken, vars
  <2> QED
    BY <2>1 DEF CommitReset, IInv, DoomedCovers
<1> QED
  BY Invariance, <1>1, PTL DEF Spec, ResetLeavesNoSession

\* When a change of password commits, every session that was live when it got
\* the users row is over, except the caller's (auth.repo.ts, changePassword).
THEOREM ChangeEndsSessions == Spec => ChangeEndsWhatItFound
<1>1. IInv /\ [Next]_vars => [ChangeClearsWitnessed]_vars
  <2> SUFFICES ASSUME IInv, [Next]_vars, NEW r \in Request,
                      pc[r] = "commit", req[r].op = "change", pc'[r] = "idle",
                      password' # password
               PROVE  live' \cap (witnessed[r] \ {req[r].own}) = {}
    BY DEF ChangeClearsWitnessed
  <2>1. PICK q \in Request : CommitChange(q) \/ CommitReset(q)
    BY DEF Next, VerifyLogin, InsertSession, VerifyCurrent, UpdateHash, DoomOthers,
           RequestReset, LockUserRow, RetireSiblings, CommitIssue, PresentToken,
           LockResetToken, RefuseToken, DoomAll, Abort, EndSession, ExpireToken, vars
  <2>2. q = r
    BY <2>1 DEF CommitChange, CommitReset, Finish, IInv, Shape
  <2> QED
    BY <2>1, <2>2 DEF CommitChange, CommitReset, IInv, DoomedCovers
<1> QED
  BY Invariance, <1>1, PTL DEF Spec, ChangeEndsWhatItFound
=============================================================================
