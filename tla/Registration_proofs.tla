------------------------ MODULE Registration_proofs ------------------------
(***************************************************************************)
(* Registration for any number of addresses, generations and concurrent    *)
(* requests: which link opens an account, on which address, and through    *)
(* which invitation.                                                       *)
(*                                                                         *)
(* A generation is open only until a later one is staged for its address,  *)
(* because the transaction that stages it retires what is open in the same *)
(* commit.  A completion keeps its generation open by the row lock, its    *)
(* address free by the entry it has in the unique index, and the           *)
(* invitation pending by the row lock of the savepoint.                    *)
(***************************************************************************)
EXTENDS Registration, TLAPS

USE EmailAssumption, NoneAssumption
USE DEF Start, Goto, pending, locks, outside, people, Account, Locker

Registering == {"invitation", "lookup", "issue", "retire", "stage", "deliver"}
Completing  == {"preread", "pending", "user", "settle"}

\* Which request stands where, and what it carries.
Stage(r) ==
    /\ pc[r] = "idle" => req[r] = NoParams
    /\ pc[r] \in Registering => req[r].op = "register"
    /\ pc[r] \in Completing => req[r].op = "complete"
    /\ pc[r] = "commit" => req[r].op \in {"complete", "move"}
    /\ req[r].op = "register" => pc[r] \in Registering
    /\ req[r].op = "register" => req[r].email \in Email /\ req[r].gen \in Generation
    /\ req[r].op = "complete" => req[r].gen \in mailed /\ req[r].accepts \in BOOLEAN
    /\ req[r].op = "move" => req[r].from \in Email /\ req[r].to \in Email

\* What is staged: rows that are there, each with its address.
Staged ==
    /\ staged \in Seq(Generation)
    /\ \A g \in Generation : status[g] # "absent" <=> g \in Range(staged)
    /\ \A g \in Range(staged) : address[g] \in Email

\* The generations of requests are each their own, and staged at most by them.
Apart ==
    \A r \in Request : req[r].op = "register" =>
        /\ IF pc[r] = "deliver" THEN status[req[r].gen] # "absent"
                                ELSE status[req[r].gen] = "absent"
        /\ \A q \in Request \ {r} : req[q].op = "register" => req[q].gen # req[r].gen

\* Nothing was staged after an open generation for its address.
OpenIsNewest ==
    \A i, j \in DOMAIN staged :
        status[staged[i]] = "open" /\ i < j => address[staged[j]] # address[staged[i]]

\* Row locks are on open generations; a completion that was let through has one.
LocksAreOnOpen == \A g \in Generation : rowLock[g] # None => status[g] = "open"

RowHeld(r) ==
    pc[r] \in {"user", "settle", "commit"} /\ req[r].op = "complete" =>
        rowLock[req[r].gen] = r

\* Index entries that are not committed yet keep the address as it was found.
Claimed(r) ==
    /\ pc[r] \in {"settle", "commit"} /\ req[r].op = "complete" =>
          claim[address[req[r].gen]] = r /\ holder[address[req[r].gen]] = None
    /\ req[r].op = "move" =>
          /\ claim[req[r].from] = r /\ claim[req[r].to] = r
          /\ holder[req[r].from] # None /\ holder[req[r].to] = None

\* An acceptance in a savepoint keeps the invitation as it was judged.
Accepting(r) ==
    req[r].op = "complete" /\ req[r].accepts =>
        /\ pc[r] = "commit" /\ invLock = r
        /\ invitation = "pending" /\ address[req[r].gen] = InvitedEmail

PendingIsUntaken == invitation = "pending" => joined = {}

IInv ==
    /\ TypeOK /\ Staged /\ Apart /\ OpenIsNewest /\ LocksAreOnOpen
    /\ MailedWasStaged /\ PendingIsUntaken
    /\ \A r \in Request : Stage(r)
    /\ \A r \in Request : RowHeld(r)
    /\ \A r \in Request : Claimed(r)
    /\ \A r \in Request : Accepting(r)

\* The initial states satisfy the invariant.
LEMMA InitInv == Init => IInv
<1> SUFFICES ASSUME Init PROVE IInv
  OBVIOUS
<1> USE DEF Init, NoParams
<1>1. TypeOK
  <2>1. Range(staged) = {}
    BY DEF Range
  <2>2. full \in BOOLEAN
    OBVIOUS
  <2> QED
    BY <2>1, <2>2 DEF TypeOK
<1>2. Staged /\ OpenIsNewest
  BY DEF Staged, OpenIsNewest, Range
<1>3. Apart /\ LocksAreOnOpen /\ MailedWasStaged /\ PendingIsUntaken
  BY DEF Apart, LocksAreOnOpen, MailedWasStaged, PendingIsUntaken
<1>4. \A r \in Request : Stage(r) /\ RowHeld(r) /\ Claimed(r) /\ Accepting(r)
  BY DEF Stage, RowHeld, Claimed, Accepting, Registering, Completing
<1> QED
  BY <1>1, <1>2, <1>3, <1>4 DEF IInv

\* The generations of a sequence one longer.
LEMMA RangeAppend ==
  ASSUME NEW S, NEW s \in Seq(S), NEW x \in S
  PROVE  Range(Append(s, x)) = Range(s) \cup {x}
<1>1. /\ Len(s) \in Nat /\ DOMAIN s = 1..Len(s)
      /\ DOMAIN Append(s, x) = 1..(Len(s) + 1)
      /\ Append(s, x)[Len(s) + 1] = x
      /\ \A i \in 1..Len(s) : Append(s, x)[i] = s[i]
  OBVIOUS
<1>2. ASSUME NEW i \in DOMAIN Append(s, x) PROVE Append(s, x)[i] \in Range(s) \cup {x}
  BY <1>1 DEF Range
<1>3. ASSUME NEW i \in DOMAIN s PROVE s[i] \in Range(Append(s, x))
  BY <1>1 DEF Range
<1>4. x \in Range(Append(s, x))
  BY <1>1 DEF Range
<1> QED
  BY <1>2, <1>3, <1>4 DEF Range

\* What a completion and its parameters are.
CompleteParams == [op : {"complete"}, gen : Generation, late : BOOLEAN, accepts : BOOLEAN]

\* The parameters of a completion keep their type as it goes on.
LEMMA CompletionParams ==
  ASSUME NEW p \in Params, p.op = "complete"
  PROVE  /\ p \in CompleteParams
         /\ \A b \in BOOLEAN : /\ [p EXCEPT !.late = b] \in Params
                               /\ [p EXCEPT !.accepts = b] \in Params
<1>1. p \in CompleteParams
  BY DEF Params, CompleteParams
<1>2. ASSUME NEW b \in BOOLEAN
      PROVE  [p EXCEPT !.late = b] \in CompleteParams /\ [p EXCEPT !.accepts = b] \in CompleteParams
  BY <1>1 DEF CompleteParams
<1>3. CompleteParams \subseteq Params
  BY DEF Params, CompleteParams
<1> QED
  BY <1>1, <1>2, <1>3

\* What staging a generation for its address does to the rows.
LEMMA Staging ==
  ASSUME IInv, NEW r \in Request, StagePending(r)
  PROVE  \/ UNCHANGED pending /\ Finish(r)
         \/ \E g \in Generation, e \in Email :
               /\ g = req[r].gen /\ e = req[r].email
               /\ req[r].op = "register" /\ status[g] = "absent" /\ g \notin Range(staged)
               /\ \A h \in Generation : status[h] = "open" /\ address[h] = e => rowLock[h] = r
               /\ status' = StagedStatus(r) /\ status'[g] = "open"
               /\ address' = [address EXCEPT ![g] = e]
               /\ staged' = Append(staged, g)
               /\ invited' \in {invited, invited \cup {g}}
               /\ Goto(r, "deliver") /\ Unlock(r)
<1>1. pc[r] = "stage"
  BY DEF StagePending
<1>2. /\ req[r].op = "register" /\ req[r].gen \in Generation /\ req[r].email \in Email
      /\ status[req[r].gen] = "absent" /\ req[r].gen \notin Range(staged)
  BY <1>1 DEF IInv, Stage, Registering, Apart, Staged
<1>3. rowLock[req[r].gen] # r
  BY <1>2 DEF IInv, LocksAreOnOpen
<1> QED
  BY <1>1, <1>2, <1>3 DEF StagePending, OpenFor, StagedStatus

\* Every step keeps every variable in its domain.
LEMMA TypeStep == IInv /\ [Next]_vars => TypeOK'
<1> SUFFICES ASSUME IInv, [Next]_vars PROVE TypeOK'
  OBVIOUS
<1>0. TypeOK /\ Staged /\ \A r \in Request : Stage(r)
  BY DEF IInv
<1> USE <1>0 DEF TypeOK, NoParams
<1>1. ASSUME NEW r \in Request, Register(r) PROVE TypeOK'
  <2>1. \A e \in Email, w \in BOOLEAN, g \in Generation :
           [op |-> "register", email |-> e, invited |-> w, gen |-> g] \in Params
    BY DEF Params
  <2> QED
    BY <1>1, <2>1 DEF Register
<1>2. ASSUME NEW r \in Request, ResolveRequestInvitation(r) \/ LookupUser(r) PROVE TypeOK'
  BY <1>2 DEF ResolveRequestInvitation, LookupUser, Finish, Unlock, Release
<1>3. ASSUME NEW r \in Request, LockIssuance(r) \/ RetireOpen(r) PROVE TypeOK'
  BY <1>3 DEF LockIssuance, RetireOpen
<1>4. ASSUME NEW r \in Request, StagePending(r) PROVE TypeOK'
  <2>1. CASE UNCHANGED pending /\ Finish(r)
    BY <1>4, <2>1 DEF StagePending, Finish, Unlock, Release
  <2>2. ASSUME NEW g \in Generation, NEW e \in Email,
               status' = StagedStatus(r), address' = [address EXCEPT ![g] = e],
               staged' = Append(staged, g), invited' \in {invited, invited \cup {g}},
               Goto(r, "deliver"), Unlock(r)
        PROVE  TypeOK'
    <3>1. Range(staged)' \subseteq Generation
      BY <2>2, RangeAppend DEF Staged
    <3>2. status' \in [Generation -> {"absent", "open", "used", "superseded"}]
      BY <2>2 DEF StagedStatus
    <3>3. /\ issuing' \in [Email -> Locker] /\ claim' \in [Email -> Locker]
          /\ rowLock' \in [Generation -> Locker] /\ invLock' \in Locker
      BY <2>2 DEF Unlock, Release
    <3>4. UNCHANGED <<mailed, expired, full, holder, invitation, joined>>
      BY <1>4 DEF StagePending
    <3>5. invited' \subseteq Generation /\ address' \in [Generation -> Email \cup {None}]
      BY <2>2
    <3>6. pc' = [pc EXCEPT ![r] = "deliver"] /\ UNCHANGED req
      BY <2>2
    <3> QED
      BY <3>1, <3>2, <3>3, <3>4, <3>5, <3>6
  <2> QED
    BY <1>4, <2>1, <2>2, Staging
<1>5. ASSUME NEW r \in Request, Deliver(r) PROVE TypeOK'
  BY <1>5 DEF Deliver, Finish, Unlock, Release, Stage, Registering
<1>6. ASSUME NEW r \in Request, Complete(r) PROVE TypeOK'
  <2>1. \A g \in mailed :
           [op |-> "complete", gen |-> g, late |-> FALSE, accepts |-> FALSE] \in Params
    BY DEF Params
  <2> QED
    BY <1>6, <2>1 DEF Complete
<1>7. ASSUME NEW r \in Request, PreRead(r) PROVE TypeOK'
  <2>1. [req[r] EXCEPT !.late = req[r].gen \in expired] \in Params
    <3>1. req[r] \in Params /\ req[r].op = "complete"
      BY <1>7 DEF PreRead, Stage, Completing
    <3>2. (req[r].gen \in expired) \in BOOLEAN
      OBVIOUS
    <3> QED
      BY <3>1, <3>2, CompletionParams
  <2> QED
    BY <1>7, <2>1 DEF PreRead
<1>8. ASSUME NEW r \in Request, LockPending(r) \/ InsertUser(r) PROVE TypeOK'
  BY <1>8 DEF LockPending, InsertUser, Finish, Unlock, Release
<1>9. ASSUME NEW r \in Request, SettleInvitation(r) PROVE TypeOK'
  <2>1. \A b \in BOOLEAN : [req[r] EXCEPT !.accepts = b] \in Params
    <3>1. req[r] \in Params /\ req[r].op = "complete"
      BY <1>9 DEF SettleInvitation, Stage, Completing
    <3> QED
      BY <3>1, CompletionParams
  <2>2. Honorable(address[req[r].gen]) \in BOOLEAN
    BY DEF Honorable
  <2> QED
    BY <1>9, <2>1, <2>2 DEF SettleInvitation
<1>10. ASSUME NEW r \in Request, CommitCompletion(r) PROVE TypeOK'
  <2>1. req[r].gen \in Generation
    BY <1>10 DEF CommitCompletion, Stage
  <2>2. status' \in [Generation -> {"absent", "open", "used", "superseded"}]
    BY <1>10 DEF CommitCompletion
  <2>3. /\ holder' = [holder EXCEPT ![address[req[r].gen]] = req[r].gen]
        /\ invitation' \in {invitation, "accepted"} /\ joined' \in {joined, joined \cup {req[r].gen}}
    BY <1>10 DEF CommitCompletion
  <2>4. Finish(r) /\ UNCHANGED <<address, invited, staged, mailed, expired, full>>
    BY <1>10 DEF CommitCompletion
  <2> QED
    BY <2>1, <2>2, <2>3, <2>4 DEF Finish, Unlock, Release
<1>11. ASSUME NEW r \in Request, MoveAccount(r) PROVE TypeOK'
  <2>1. \A e, f \in Email : [op |-> "move", from |-> e, to |-> f] \in Params
    BY DEF Params
  <2> QED
    BY <1>11, <2>1 DEF MoveAccount
<1>12. ASSUME NEW r \in Request, CommitMove(r) PROVE TypeOK'
  BY <1>12 DEF CommitMove, Finish, Unlock, Release, Stage
<1>13. ASSUME NEW r \in Request, Fail(r) PROVE TypeOK'
  BY <1>13 DEF Fail, Finish, Unlock, Release
<1>14. CASE RevokeInvitation \/ SeatsChange \/ \E g \in Generation : Expire(g)
  <2>1. CASE RevokeInvitation
    BY <2>1 DEF RevokeInvitation
  <2>2. CASE SeatsChange
    <3>1. full' \in BOOLEAN
      BY <2>2 DEF SeatsChange
    <3> QED
      BY <2>2, <3>1 DEF SeatsChange
  <2>3. CASE \E g \in Generation : Expire(g)
    BY <2>3 DEF Expire
  <2> QED
    BY <1>14, <2>1, <2>2, <2>3
<1>15. CASE UNCHANGED vars
  BY <1>15 DEF vars
<1> QED
  BY <1>1, <1>2, <1>3, <1>4, <1>5, <1>6, <1>7, <1>8, <1>9, <1>10, <1>11, <1>12, <1>13,
     <1>14, <1>15 DEF Next

\* Every step leaves every request at a stage of its operation.
LEMMA StageStep == IInv /\ [Next]_vars => \A r \in Request : Stage(r)'
<1> SUFFICES ASSUME IInv, [Next]_vars, NEW q \in Request PROVE Stage(q)'
  OBVIOUS
<1>0. TypeOK /\ \A r \in Request : Stage(r)
  BY DEF IInv
<1> USE <1>0 DEF TypeOK, NoParams, Stage, Registering, Completing
<1>1. ASSUME NEW r \in Request, Register(r) \/ Complete(r) \/ MoveAccount(r), UNCHANGED mailed
      PROVE Stage(q)'
  <2>1. CASE Register(r)
    BY <1>1, <2>1 DEF Register
  <2>2. CASE Complete(r)
    BY <1>1, <2>2 DEF Complete
  <2>3. CASE MoveAccount(r)
    BY <1>1, <2>3 DEF MoveAccount
  <2> QED
    BY <1>1, <2>1, <2>2, <2>3
<1>2. ASSUME NEW r \in Request, Finish(r), mailed \subseteq mailed' PROVE Stage(q)'
  BY <1>2 DEF Finish
<1>3. ASSUME NEW r \in Request, PreRead(r) PROVE Stage(q)'
  BY <1>3 DEF PreRead, Params
<1>4. ASSUME NEW r \in Request, SettleInvitation(r) PROVE Stage(q)'
  <2>1. req[r].op = "complete" /\ req[r] \in CompleteParams
    BY <1>4, CompletionParams DEF SettleInvitation
  <2>2. \/ req'[r] = req[r]
        \/ \E b \in BOOLEAN : req'[r] = [req[r] EXCEPT !.accepts = b]
    <3>1. Honorable(address[req[r].gen]) \in BOOLEAN
      BY DEF Honorable
    <3> QED
      BY <1>4, <3>1 DEF SettleInvitation
  <2>3. req'[r].op = "complete" /\ req'[r].gen = req[r].gen /\ req'[r].accepts \in BOOLEAN
    BY <2>1, <2>2 DEF CompleteParams
  <2>4. \A x \in Request \ {r} : req'[x] = req[x] /\ pc'[x] = pc[x]
    BY <1>4 DEF SettleInvitation
  <2> QED
    BY <1>4, <2>1, <2>3, <2>4 DEF SettleInvitation
<1>5. ASSUME NEW r \in Request, UNCHANGED mailed,
             \/ pc[r] \in {"invitation", "lookup", "issue", "retire", "stage"}
                /\ \E step \in Registering : Goto(r, step)
             \/ pc[r] \in {"pending", "user"} /\ \E step \in Completing : Goto(r, step)
      PROVE  Stage(q)'
  BY <1>5
<1>6. ASSUME UNCHANGED <<pc, req, mailed>> PROVE Stage(q)'
  BY <1>6
<1> QED
  <2>1. ASSUME NEW r \in Request,
               ResolveRequestInvitation(r) \/ LookupUser(r) \/ LockIssuance(r) \/ RetireOpen(r)
                  \/ StagePending(r) \/ LockPending(r) \/ InsertUser(r)
        PROVE  Stage(q)'
    BY <2>1, <1>2, <1>5
    DEF ResolveRequestInvitation, LookupUser, LockIssuance, RetireOpen, StagePending,
        LockPending, InsertUser
  <2>2. ASSUME NEW r \in Request,
               Deliver(r) \/ CommitCompletion(r) \/ CommitMove(r) \/ Fail(r)
        PROVE  Stage(q)'
    BY <2>2, <1>2 DEF Deliver, CommitCompletion, CommitMove, Fail
  <2>3. ASSUME NEW r \in Request, Register(r) \/ Complete(r) \/ MoveAccount(r)
        PROVE  Stage(q)'
    BY <2>3, <1>1 DEF Register, Complete, MoveAccount
  <2> QED
    BY <2>1, <2>2, <2>3, <1>3, <1>4, <1>6 DEF Next, RevokeInvitation, SeatsChange, Expire, vars

\* Generations change at three places.
LEMMA PendingWriters ==
  [Next]_vars => \/ UNCHANGED pending
                 \/ \E r \in Request : StagePending(r)
                 \/ \E r \in Request : CommitCompletion(r)
  BY DEF Next, Register, ResolveRequestInvitation, LookupUser, LockIssuance, RetireOpen,
         Deliver, Complete, PreRead, LockPending, InsertUser, SettleInvitation, MoveAccount,
         CommitMove, Fail, RevokeInvitation, SeatsChange, Expire, vars

\* What a completion does to the generations: its own is used, open ones of its
\* address are superseded.
LEMMA Completion ==
  ASSUME IInv, NEW r \in Request, CommitCompletion(r)
  PROVE  \E g \in Generation :
            /\ g = req[r].gen /\ req[r].op = "complete" /\ rowLock[g] = r
            /\ status[g] = "open" /\ status'[g] = "used" /\ address[g] \in Email
            /\ \A h \in Generation \ {g} :
                  IF status[h] = "open" /\ address[h] = address[g]
                     THEN rowLock[h] = None /\ status'[h] = "superseded"
                     ELSE status'[h] = status[h]
            /\ UNCHANGED <<address, invited, staged, mailed>> /\ Finish(r)
<1>1. /\ req[r].gen \in Generation /\ rowLock[req[r].gen] = r /\ req[r].op = "complete"
      /\ status[req[r].gen] = "open"
  BY DEF CommitCompletion, IInv, TypeOK, Stage, RowHeld, LocksAreOnOpen
<1>2. address[req[r].gen] \in Email
  BY <1>1 DEF IInv, Staged
<1>3. UNCHANGED <<address, invited, staged, mailed>> /\ Finish(r)
  BY DEF CommitCompletion
<1> QED
  BY <1>1, <1>2, <1>3 DEF CommitCompletion, OpenFor

\* Whatever is staged is there, with its address.
LEMMA StagedStep == IInv /\ [Next]_vars => Staged'
<1> SUFFICES ASSUME IInv, [Next]_vars PROVE Staged'
  OBVIOUS
<1>0. TypeOK /\ Staged
  BY DEF IInv
<1>1. CASE UNCHANGED pending
  BY <1>0, <1>1 DEF Staged
<1>2. ASSUME NEW r \in Request, StagePending(r) PROVE Staged'
  <2>1. CASE UNCHANGED pending
    BY <1>0, <2>1 DEF Staged
  <2>2. ASSUME NEW g \in Generation, NEW e \in Email, status[g] = "absent",
               status' = StagedStatus(r), status'[g] = "open", g = req[r].gen,
               address' = [address EXCEPT ![g] = e], staged' = Append(staged, g)
        PROVE  Staged'
    <3>1. Range(staged') = Range(staged) \cup {g} /\ staged' \in Seq(Generation)
      BY <1>0, <2>2, RangeAppend DEF Staged
    <3>2. \A h \in Generation \ {g} : status'[h] # "absent" <=> status[h] # "absent"
      BY <1>0, <2>2 DEF StagedStatus, IInv, LocksAreOnOpen
    <3>3. \A h \in Range(staged) : address'[h] \in Email
      BY <1>0, <2>2 DEF Staged, TypeOK
    <3>4. address'[g] = e
      BY <1>0, <2>2 DEF TypeOK
    <3>5. \A h \in Generation : status'[h] # "absent" <=> h \in Range(staged')
      BY <1>0, <2>2, <3>1, <3>2 DEF Staged
    <3>6. \A h \in Range(staged') : address'[h] \in Email
      BY <2>2, <3>1, <3>3, <3>4
    <3> QED
      BY <3>1, <3>5, <3>6 DEF Staged, Range
  <2> QED
    BY <1>2, <2>1, <2>2, Staging
<1>3. ASSUME NEW r \in Request, CommitCompletion(r) PROVE Staged'
  BY <1>0, <1>3, Completion DEF Staged
<1> QED
  BY <1>1, <1>2, <1>3, PendingWriters

\* The generations of requests stay apart.
LEMMA ApartStep == IInv /\ [Next]_vars => Apart'
<1> SUFFICES ASSUME IInv, [Next]_vars PROVE Apart'
  OBVIOUS
<1>0. TypeOK /\ Apart /\ LocksAreOnOpen /\ \A r \in Request : Stage(r)
  BY DEF IInv
<1> USE <1>0 DEF TypeOK, NoParams
<1>1. ASSUME NEW r \in Request, Register(r) PROVE Apart'
  <2>1. PICK g \in Generation : /\ g \notin Promised /\ status[g] = "absent"
                                /\ req'[r].gen = g /\ pc'[r] # "deliver"
    BY <1>1 DEF Register
  <2>2. \A q \in Request \ {r} : req'[q] = req[q] /\ pc'[q] = pc[q]
    BY <1>1 DEF Register
  <2>3. \A q \in Request : req[q].op = "register" => req[q].gen # g
    BY <2>1 DEF Promised
  <2> QED
    BY <1>1, <2>1, <2>2, <2>3 DEF Apart, Register
<1>2. ASSUME NEW r \in Request, UNCHANGED status,
             req'[r].op = "register" => req'[r] = req[r] /\ pc[r] # "deliver"
                                        /\ pc'[r] # "deliver",
             \A q \in Request \ {r} : req'[q] = req[q] /\ pc'[q] = pc[q]
      PROVE  Apart'
  BY <1>2 DEF Apart
<1>3. ASSUME UNCHANGED <<status, pc, req>> PROVE Apart'
  BY <1>3 DEF Apart
<1>4. ASSUME NEW r \in Request, StagePending(r) PROVE Apart'
  <2>1. CASE UNCHANGED pending /\ Finish(r)
    BY <2>1, <1>2 DEF Finish
  <2>2. ASSUME NEW g \in Generation, status[g] = "absent", g = req[r].gen,
               req[r].op = "register", status' = StagedStatus(r), status'[g] = "open",
               Goto(r, "deliver")
        PROVE  Apart'
    <3>1. \A q \in Request \ {r} : req[q].op = "register" =>
             status'[req[q].gen] = "absent" <=> status[req[q].gen] = "absent"
      BY <2>2 DEF Apart, Stage, StagedStatus, LocksAreOnOpen
    <3> QED
      BY <2>2, <3>1 DEF Apart
  <2> QED
    BY <1>4, <2>1, <2>2, Staging
<1>5. ASSUME NEW r \in Request, CommitCompletion(r) PROVE Apart'
  <2>1. \A h \in Generation : status'[h] = "absent" <=> status[h] = "absent"
    BY <1>5, Completion
  <2>2. \A q \in Request : req'[q].op = "register" => req'[q] = req[q] /\ pc'[q] = pc[q]
    BY <1>5 DEF CommitCompletion, Finish
  <2> QED
    BY <2>1, <2>2 DEF Apart, Stage
<1> QED
  <2>1. ASSUME NEW r \in Request, ResolveRequestInvitation(r) \/ LookupUser(r)
                  \/ LockIssuance(r) \/ RetireOpen(r) \/ Deliver(r) \/ Complete(r)
                  \/ PreRead(r) \/ LockPending(r) \/ InsertUser(r) \/ SettleInvitation(r)
                  \/ MoveAccount(r) \/ CommitMove(r) \/ Fail(r)
        PROVE  Apart'
    BY <2>1, <1>2
    DEF ResolveRequestInvitation, LookupUser, LockIssuance, RetireOpen, Deliver, Complete,
        PreRead, LockPending, InsertUser, SettleInvitation, MoveAccount, CommitMove, Fail,
        Finish, Stage, Registering, Completing, Params
  <2> QED
    BY <2>1, <1>1, <1>3, <1>4, <1>5 DEF Next, RevokeInvitation, SeatsChange, Expire, vars

\* The transaction that stages a generation leaves no other of its address open.
LEMMA NewestStep == IInv /\ [Next]_vars => OpenIsNewest'
<1> SUFFICES ASSUME IInv, [Next]_vars PROVE OpenIsNewest'
  OBVIOUS
<1>0. TypeOK /\ Staged /\ OpenIsNewest
  BY DEF IInv
<1>1. CASE UNCHANGED pending
  BY <1>0, <1>1 DEF OpenIsNewest
<1>2. ASSUME NEW r \in Request, StagePending(r) PROVE OpenIsNewest'
  <2>1. CASE UNCHANGED pending
    BY <1>0, <2>1 DEF OpenIsNewest
  <2>2. ASSUME NEW g \in Generation, NEW e \in Email, status[g] = "absent",
               g \notin Range(staged), g = req[r].gen,
               \A h \in Generation : status[h] = "open" /\ address[h] = e => rowLock[h] = r,
               status' = StagedStatus(r), address' = [address EXCEPT ![g] = e],
               staged' = Append(staged, g)
        PROVE  OpenIsNewest'
    <3> SUFFICES ASSUME NEW i \in DOMAIN staged', NEW j \in DOMAIN staged', i < j,
                        status'[staged'[i]] = "open"
                 PROVE  address'[staged'[j]] # address'[staged'[i]]
      BY DEF OpenIsNewest
    <3>1. /\ Len(staged) \in Nat /\ DOMAIN staged = 1..Len(staged)
          /\ DOMAIN staged' = 1..(Len(staged) + 1)
          /\ staged'[Len(staged) + 1] = g
          /\ \A k \in 1..Len(staged) : staged'[k] = staged[k]
      BY <1>0, <2>2 DEF Staged
    <3>2. \A k \in DOMAIN staged : /\ staged[k] \in Generation \ {g}
                                   /\ address'[staged[k]] = address[staged[k]]
      BY <1>0, <2>2 DEF Staged, Range, TypeOK
    <3>3. i \in DOMAIN staged
      BY <3>1
    <3>4. status[staged[i]] = "open" /\ rowLock[staged[i]] # r
      BY <2>2, <3>1, <3>2, <3>3 DEF StagedStatus
    <3>5. CASE j \in DOMAIN staged
      BY <1>0, <3>1, <3>2, <3>3, <3>4, <3>5 DEF OpenIsNewest
    <3>6. CASE j = Len(staged) + 1
      <4>1. address'[staged'[j]] = e
        BY <1>0, <2>2, <3>1, <3>6 DEF TypeOK
      <4>2. address[staged[i]] # e
        BY <2>2, <3>2, <3>3, <3>4
      <4> QED
        BY <3>1, <3>2, <3>3, <4>1, <4>2
    <3> QED
      BY <3>1, <3>5, <3>6
  <2> QED
    BY <1>2, <2>1, <2>2, Staging
<1>3. ASSUME NEW r \in Request, CommitCompletion(r) PROVE OpenIsNewest'
  <2>1. \A h \in Generation : status'[h] = "open" => status[h] = "open"
    BY <1>3, Completion
  <2>2. UNCHANGED <<staged, address>>
    BY <1>3 DEF CommitCompletion
  <2>3. \A i \in DOMAIN staged : staged[i] \in Generation
    BY <1>0 DEF Staged
  <2> QED
    BY <1>0, <2>1, <2>2, <2>3 DEF OpenIsNewest
<1> QED
  BY <1>1, <1>2, <1>3, PendingWriters

\* What is mailed was staged, and stays staged.
LEMMA MailedStep == IInv /\ [Next]_vars => MailedWasStaged'
<1> SUFFICES ASSUME IInv, [Next]_vars PROVE MailedWasStaged'
  OBVIOUS
<1>0. MailedWasStaged /\ Staged /\ Staged'
  BY StagedStep DEF IInv
<1>1. Range(staged) \subseteq Range(staged)'
  <2>1. CASE UNCHANGED pending
    BY <2>1
  <2>2. ASSUME NEW r \in Request, StagePending(r) PROVE Range(staged) \subseteq Range(staged)'
    <3>1. UNCHANGED staged \/ \E g \in Generation : staged' = Append(staged, g)
      BY <2>2, Staging
    <3>2. CASE UNCHANGED staged
      BY <3>2
    <3>3. ASSUME NEW g \in Generation, staged' = Append(staged, g)
          PROVE  Range(staged) \subseteq Range(staged)'
      <4>1. staged \in Seq(Generation)
        BY <1>0 DEF Staged
      <4>2. Range(Append(staged, g)) = Range(staged) \cup {g}
        BY <4>1, RangeAppend
      <4>3. Range(staged)' = Range(Append(staged, g))
        BY <3>3 DEF Range
      <4> QED
        BY <4>2, <4>3
    <3> QED
      BY <3>1, <3>2, <3>3
  <2>3. ASSUME NEW r \in Request, CommitCompletion(r)
        PROVE  Range(staged) \subseteq Range(staged)'
    BY <2>3 DEF CommitCompletion
  <2> QED
    BY <2>1, <2>2, <2>3, PendingWriters
<1>2. CASE UNCHANGED mailed
  BY <1>0, <1>1, <1>2 DEF MailedWasStaged
<1>3. ASSUME NEW r \in Request, Deliver(r) PROVE MailedWasStaged'
  <2>1. req[r].gen \in Generation /\ status[req[r].gen] # "absent"
    BY <1>3 DEF Deliver, IInv, Stage, Registering, Apart
  <2>2. req[r].gen \in Range(staged)
    BY <1>0, <2>1 DEF Staged
  <2> QED
    BY <1>0, <1>1, <1>3, <2>2 DEF Deliver, MailedWasStaged
<1> QED
  BY <1>2, <1>3
  DEF Next, Register, ResolveRequestInvitation, LookupUser, LockIssuance, RetireOpen,
      StagePending, Complete, PreRead, LockPending, InsertUser, SettleInvitation,
      CommitCompletion, MoveAccount, CommitMove, Fail, RevokeInvitation, SeatsChange, Expire,
      vars

\* Row locks are on open generations only.
LEMMA LocksStep == IInv /\ [Next]_vars => LocksAreOnOpen'
<1> SUFFICES ASSUME IInv, [Next]_vars PROVE LocksAreOnOpen'
  OBVIOUS
<1>0. TypeOK /\ LocksAreOnOpen /\ (\A r \in Request : Stage(r))
  BY DEF IInv
<1> USE <1>0 DEF TypeOK
<1>1. ASSUME NEW r \in Request, RetireOpen(r) PROVE LocksAreOnOpen'
  BY <1>1 DEF RetireOpen, OpenFor, LocksAreOnOpen
<1>2. ASSUME NEW r \in Request, StagePending(r) PROVE LocksAreOnOpen'
  <2>1. CASE UNCHANGED pending /\ Finish(r)
    BY <2>1 DEF Finish, Unlock, Release, LocksAreOnOpen
  <2>2. ASSUME NEW g \in Generation, g = req[r].gen, status[g] = "absent",
               status' = StagedStatus(r), Unlock(r)
        PROVE  LocksAreOnOpen'
    BY <2>2 DEF StagedStatus, Unlock, Release, LocksAreOnOpen
  <2> QED
    BY <1>2, <2>1, <2>2, Staging
<1>3. ASSUME NEW r \in Request, LockPending(r) PROVE LocksAreOnOpen'
  BY <1>3 DEF LockPending, Finish, Unlock, Release, LocksAreOnOpen
<1>4. ASSUME NEW r \in Request, CommitCompletion(r) PROVE LocksAreOnOpen'
  <2>1. rowLock' = Release(rowLock, r)
    BY <1>4 DEF CommitCompletion, Finish, Unlock
  <2> QED
    BY <1>4, <2>1, Completion DEF Release, LocksAreOnOpen
<1>5. ASSUME NEW r \in Request, UNCHANGED status, Finish(r) PROVE LocksAreOnOpen'
  BY <1>5 DEF Finish, Unlock, Release, LocksAreOnOpen
<1>6. ASSUME UNCHANGED <<status, rowLock>> PROVE LocksAreOnOpen'
  BY <1>6 DEF LocksAreOnOpen
<1> QED
  BY <1>1, <1>2, <1>3, <1>4, <1>5, <1>6
  DEF Next, Register, ResolveRequestInvitation, LookupUser, LockIssuance, Deliver, Complete,
      PreRead, InsertUser, SettleInvitation, MoveAccount, CommitMove, Fail,
      RevokeInvitation, SeatsChange, Expire, vars

\* A completion keeps the row lock on its generation.
LEMMA RowHeldStep == IInv /\ [Next]_vars => \A r \in Request : RowHeld(r)'
<1> SUFFICES ASSUME IInv, [Next]_vars, NEW q \in Request PROVE RowHeld(q)'
  OBVIOUS
<1>0. TypeOK /\ LocksAreOnOpen /\ (\A r \in Request : Stage(r) /\ RowHeld(r))
  BY DEF IInv
<1> USE <1>0 DEF TypeOK, RowHeld
<1>1. ASSUME NEW r \in Request, Finish(r) PROVE RowHeld(q)'
  BY <1>1 DEF Finish, Unlock, Release, NoParams, Stage
<1>2. ASSUME NEW r \in Request, Register(r) \/ Complete(r) \/ MoveAccount(r) PROVE RowHeld(q)'
  <2>1. CASE Register(r)
    BY <2>1 DEF Register
  <2>2. CASE Complete(r)
    BY <2>2 DEF Complete
  <2>3. CASE MoveAccount(r)
    BY <2>3 DEF MoveAccount
  <2> QED
    BY <1>2, <2>1, <2>2, <2>3
<1>3. ASSUME NEW r \in Request, RetireOpen(r) PROVE RowHeld(q)'
  BY <1>3 DEF RetireOpen, OpenFor, LocksAreOnOpen, Stage
<1>4. ASSUME NEW r \in Request, StagePending(r) PROVE RowHeld(q)'
  <2>1. CASE Finish(r)
    BY <1>1, <2>1
  <2>2. CASE Goto(r, "deliver") /\ Unlock(r)
    BY <2>2 DEF Unlock, Release, Stage
  <2> QED
    BY <1>4, <2>1, <2>2 DEF StagePending
<1>5. ASSUME NEW r \in Request, PreRead(r) PROVE RowHeld(q)'
  BY <1>5 DEF PreRead
<1>6. ASSUME NEW r \in Request, LockPending(r) PROVE RowHeld(q)'
  <2>1. CASE Finish(r)
    BY <1>1, <2>1
  <2>2. CASE ~Finish(r)
    BY <1>6, <2>2 DEF LockPending, LocksAreOnOpen, Stage
  <2> QED
    BY <2>1, <2>2
<1>7. ASSUME NEW r \in Request, SettleInvitation(r) PROVE RowHeld(q)'
  <2>1. req'[r].op = "complete" /\ req'[r].gen = req[r].gen /\ req[r].op = "complete"
    <3>1. req[r].op = "complete" /\ req[r] \in CompleteParams
      BY <1>7, CompletionParams DEF SettleInvitation, Stage, Completing, NoParams
    <3> QED
      BY <1>7, <3>1 DEF SettleInvitation, CompleteParams
  <2> QED
    BY <1>7, <2>1 DEF SettleInvitation
<1>8. ASSUME NEW r \in Request,
             ResolveRequestInvitation(r) \/ LookupUser(r) \/ LockIssuance(r) \/ InsertUser(r)
      PROVE  RowHeld(q)'
  <2>1. CASE Finish(r)
    BY <1>1, <2>1
  <2>2. CASE ~Finish(r)
    BY <1>8, <2>2 DEF ResolveRequestInvitation, LookupUser, LockIssuance, InsertUser
  <2> QED
    BY <2>1, <2>2
<1>9. ASSUME UNCHANGED <<pc, req, rowLock>> PROVE RowHeld(q)'
  BY <1>9
<1> QED
  BY <1>1, <1>2, <1>3, <1>4, <1>5, <1>6, <1>7, <1>8, <1>9
  DEF Next, Deliver, CommitCompletion, CommitMove, Fail, RevokeInvitation, SeatsChange, Expire,
      vars

\* The address of a generation that is there does not change.
LEMMA AddressStays ==
  ASSUME IInv, [Next]_vars, NEW g \in Generation, status[g] # "absent"
  PROVE  address'[g] = address[g]
<1>1. ASSUME NEW r \in Request, StagePending(r) PROVE address'[g] = address[g]
  BY <1>1, Staging DEF IInv, TypeOK
<1> QED
  BY <1>1, PendingWriters DEF CommitCompletion

\* The address a completion works on.
LEMMA CompletionAddress ==
  ASSUME IInv, NEW r \in Request, req[r].op = "complete"
  PROVE  /\ req[r].gen \in Generation /\ status[req[r].gen] # "absent"
         /\ address[req[r].gen] \in Email
  BY DEF IInv, TypeOK, Stage, MailedWasStaged, Staged

\* Steps that release at most their own entries of the index and write only
\* addresses they have entries for keep what the others claim.
LEMMA OthersKeepClaims ==
  ASSUME IInv, [Next]_vars, NEW r \in Request, NEW q \in Request \ {r},
         pc'[q] = pc[q], req'[q] = req[q],
         \A e \in Email : claim[e] = q => claim'[e] = q,
         \A e \in Email : claim[e] = q => holder'[e] = holder[e]
  PROVE  Claimed(q)'
<1>1. Claimed(q) /\ Stage(q)
  BY DEF IInv
<1>2. CASE req[q].op = "complete"
  BY <1>1, <1>2, CompletionAddress, AddressStays DEF Claimed
<1>3. CASE req[q].op # "complete"
  BY <1>1, <1>3 DEF Claimed, Stage
<1> QED
  BY <1>2, <1>3

\* Every entry of the index that is not committed keeps its address as found.
LEMMA ClaimedStep == IInv /\ [Next]_vars => \A r \in Request : Claimed(r)'
<1> SUFFICES ASSUME IInv, [Next]_vars, NEW q \in Request PROVE Claimed(q)'
  OBVIOUS
<1>0. TypeOK /\ (\A r \in Request : Stage(r) /\ Claimed(r))
  BY DEF IInv
<1> USE <1>0 DEF TypeOK
<1>1. ASSUME NEW r \in Request, Finish(r), UNCHANGED holder PROVE Claimed(q)'
  <2>1. CASE q = r
    BY <1>1, <2>1 DEF Finish, Claimed, NoParams
  <2>2. CASE q # r
    BY <1>1, <2>2, OthersKeepClaims DEF Finish, Unlock, Release
  <2> QED
    BY <2>1, <2>2
<1>2. ASSUME NEW r \in Request, Register(r) \/ Complete(r) PROVE Claimed(q)'
  <2>1. CASE q = r
    BY <1>2, <2>1 DEF Register, Complete, Claimed
  <2>2. CASE q # r
    BY <1>2, <2>2, OthersKeepClaims DEF Register, Complete
  <2> QED
    BY <2>1, <2>2
<1>3. ASSUME NEW r \in Request, MoveAccount(r) PROVE Claimed(q)'
  <2>1. CASE q = r
    BY <1>3, <2>1 DEF MoveAccount, Claimed
  <2>2. CASE q # r
    BY <1>3, <2>2, OthersKeepClaims DEF MoveAccount
  <2> QED
    BY <2>1, <2>2
<1>4. ASSUME NEW r \in Request, PreRead(r) PROVE Claimed(q)'
  <2>1. CASE q = r
    <3>1. req[r].op = "complete" /\ req[r] \in CompleteParams
      BY <1>4, CompletionParams DEF PreRead, Stage, Completing, NoParams
    <3> QED
      BY <1>4, <2>1, <3>1 DEF PreRead, Claimed, CompleteParams
  <2>2. CASE q # r
    BY <1>4, <2>2, OthersKeepClaims DEF PreRead
  <2> QED
    BY <2>1, <2>2
<1>5. ASSUME NEW r \in Request, InsertUser(r), ~Finish(r) PROVE Claimed(q)'
  <2>1. /\ req[r].op = "complete" /\ address[req[r].gen] \in Email /\ UNCHANGED <<req, address, holder>>
        /\ claim' = [claim EXCEPT ![address[req[r].gen]] = r]
        /\ claim[address[req[r].gen]] = None /\ holder[address[req[r].gen]] = None
    BY <1>5, CompletionAddress DEF InsertUser, Stage, Completing
  <2>2. CASE q = r
    BY <2>1, <2>2 DEF Claimed
  <2>3. CASE q # r
    BY <1>5, <2>1, <2>3, OthersKeepClaims DEF InsertUser
  <2> QED
    BY <2>2, <2>3
<1>6. ASSUME NEW r \in Request, SettleInvitation(r) PROVE Claimed(q)'
  <2>1. CASE q = r
    <3>1. req[r].op = "complete" /\ req[r] \in CompleteParams
      BY <1>6, CompletionParams DEF SettleInvitation, Stage, Completing, NoParams
    <3>2. req'[r].op = "complete" /\ req'[r].gen = req[r].gen
      BY <1>6, <3>1 DEF SettleInvitation, CompleteParams
    <3> QED
      BY <1>6, <2>1, <3>1, <3>2 DEF SettleInvitation, Claimed
  <2>2. CASE q # r
    BY <1>6, <2>2, OthersKeepClaims DEF SettleInvitation
  <2> QED
    BY <2>1, <2>2
<1>7. ASSUME NEW r \in Request, CommitCompletion(r) PROVE Claimed(q)'
  <2>1. CASE q = r
    BY <1>7, <2>1 DEF CommitCompletion, Finish, Claimed, NoParams
  <2>2. CASE q # r
    <3>1. \A e \in Email : claim[e] = q => claim'[e] = q
      BY <1>7, <2>2 DEF CommitCompletion, Finish, Unlock, Release
    <3>2. claim[address[req[r].gen]] = r
      BY <1>7 DEF CommitCompletion, Claimed
    <3>3. \A e \in Email : claim[e] = q => holder'[e] = holder[e]
      BY <1>7, <2>2, <3>2 DEF CommitCompletion
    <3> QED
      BY <1>7, <2>2, <3>1, <3>3, OthersKeepClaims DEF CommitCompletion, Finish
  <2> QED
    BY <2>1, <2>2
<1>8. ASSUME NEW r \in Request, CommitMove(r) PROVE Claimed(q)'
  <2>1. CASE q = r
    BY <1>8, <2>1 DEF CommitMove, Finish, Claimed, NoParams
  <2>2. CASE q # r
    <3>1. \A e \in Email : claim[e] = q => claim'[e] = q
      BY <1>8, <2>2 DEF CommitMove, Finish, Unlock, Release
    <3>2. claim[req[r].from] = r /\ claim[req[r].to] = r
      BY <1>8 DEF CommitMove, Claimed
    <3>3. \A e \in Email : claim[e] = q => holder'[e] = holder[e]
      BY <1>8, <2>2, <3>2 DEF CommitMove
    <3> QED
      BY <1>8, <2>2, <3>1, <3>3, OthersKeepClaims DEF CommitMove, Finish
  <2> QED
    BY <2>1, <2>2
<1>9. ASSUME NEW r \in Request,
             ResolveRequestInvitation(r) \/ LookupUser(r) \/ LockIssuance(r) \/ RetireOpen(r)
                \/ StagePending(r) \/ LockPending(r),
             ~Finish(r)
      PROVE  Claimed(q)'
  <2>1. CASE q = r
    BY <1>9, <2>1
    DEF ResolveRequestInvitation, LookupUser, LockIssuance, RetireOpen, StagePending,
        LockPending, Claimed, Stage, Registering, Completing
  <2>2. CASE q # r
    BY <1>9, <2>2, OthersKeepClaims
    DEF ResolveRequestInvitation, LookupUser, LockIssuance, RetireOpen, StagePending,
        LockPending, Unlock, Release
  <2> QED
    BY <2>1, <2>2
<1>10. ASSUME UNCHANGED <<pc, req, address, claim, holder>> PROVE Claimed(q)'
  BY <1>10 DEF Claimed
<1> QED
  BY <1>1, <1>2, <1>3, <1>4, <1>5, <1>6, <1>7, <1>8, <1>9, <1>10
  DEF Next, ResolveRequestInvitation, LookupUser, LockIssuance, RetireOpen, StagePending,
      Deliver, LockPending, InsertUser, Fail, RevokeInvitation, SeatsChange, Expire, vars

\* Nobody else accepts or revokes the invitation an acceptance has locked.
LEMMA OthersKeepAccepting ==
  ASSUME IInv, [Next]_vars, NEW r \in Request, NEW q \in Request \ {r},
         pc'[q] = pc[q], req'[q] = req[q],
         invLock = q => invLock' = q /\ invitation' = invitation
  PROVE  Accepting(q)'
<1>1. Accepting(q)
  BY DEF IInv
<1>2. CASE req[q].op = "complete" /\ req[q].accepts
  BY <1>1, <1>2, CompletionAddress, AddressStays DEF Accepting
<1>3. CASE ~(req[q].op = "complete" /\ req[q].accepts)
  BY <1>3 DEF Accepting
<1> QED
  BY <1>2, <1>3

\* Nobody else decides the invitation a completion has locked.
LEMMA AcceptingStep == IInv /\ [Next]_vars => \A r \in Request : Accepting(r)'
<1> SUFFICES ASSUME IInv, [Next]_vars, NEW q \in Request PROVE Accepting(q)'
  OBVIOUS
<1>0. TypeOK /\ (\A r \in Request : Stage(r) /\ Accepting(r))
  BY DEF IInv
<1> USE <1>0 DEF TypeOK
<1>1. ASSUME NEW r \in Request, Finish(r), UNCHANGED invitation PROVE Accepting(q)'
  <2>1. CASE q = r
    BY <1>1, <2>1 DEF Finish, Accepting, NoParams
  <2>2. CASE q # r
    BY <1>1, <2>2, OthersKeepAccepting DEF Finish, Unlock
  <2> QED
    BY <2>1, <2>2
<1>2. ASSUME NEW r \in Request, Register(r) \/ Complete(r) \/ MoveAccount(r)
      PROVE  Accepting(q)'
  <2>1. CASE q = r
    BY <1>2, <2>1 DEF Register, Complete, MoveAccount, Accepting
  <2>2. CASE q # r
    BY <1>2, <2>2, OthersKeepAccepting DEF Register, Complete, MoveAccount
  <2> QED
    BY <2>1, <2>2
<1>3. ASSUME NEW r \in Request, PreRead(r) PROVE Accepting(q)'
  <2>1. CASE q = r
    <3>1. req[r].op = "complete" /\ req[r] \in CompleteParams
      BY <1>3, CompletionParams DEF PreRead, Stage, Completing, NoParams
    <3>2. ~req[r].accepts
      BY <1>3, <3>1 DEF PreRead, Accepting
    <3>3. req'[r].accepts = req[r].accepts
      BY <1>3, <3>1 DEF PreRead, CompleteParams
    <3> QED
      BY <2>1, <3>2, <3>3 DEF Accepting
  <2>2. CASE q # r
    BY <1>3, <2>2, OthersKeepAccepting DEF PreRead
  <2> QED
    BY <2>1, <2>2
<1>4. ASSUME NEW r \in Request, SettleInvitation(r) PROVE Accepting(q)'
  <2>1. CASE q = r
    <3>1. req[r].op = "complete" /\ req[r] \in CompleteParams /\ ~req[r].accepts
      BY <1>4, CompletionParams
      DEF SettleInvitation, Stage, Completing, NoParams, Accepting
    <3>2. CASE req[r].gen \in invited
      <4>1. /\ req'[r].gen = req[r].gen
            /\ req'[r].accepts = Honorable(address[req[r].gen])
            /\ invLock' = IF Honorable(address[req[r].gen]) THEN r ELSE None
            /\ pc'[r] = "commit" /\ UNCHANGED <<address, invitation>>
        BY <1>4, <3>1, <3>2 DEF SettleInvitation, CompleteParams
      <4> QED
        BY <2>1, <4>1 DEF Accepting, Honorable
    <3>3. CASE req[r].gen \notin invited
      BY <1>4, <2>1, <3>1, <3>3 DEF SettleInvitation, Accepting
    <3> QED
      BY <3>2, <3>3
  <2>2. CASE q # r
    BY <1>4, <2>2, OthersKeepAccepting DEF SettleInvitation
  <2> QED
    BY <2>1, <2>2
<1>5. ASSUME NEW r \in Request, CommitCompletion(r) PROVE Accepting(q)'
  <2>1. CASE q = r
    BY <1>5, <2>1 DEF CommitCompletion, Finish, Accepting, NoParams
  <2>2. CASE q # r
    <3>1. invLock = q => invLock' = q /\ invitation' = invitation
      BY <1>5, <2>2 DEF CommitCompletion, Finish, Unlock, Accepting
    <3> QED
      BY <1>5, <2>2, <3>1, OthersKeepAccepting DEF CommitCompletion, Finish
  <2> QED
    BY <2>1, <2>2
<1>6. ASSUME NEW r \in Request,
             ResolveRequestInvitation(r) \/ LookupUser(r) \/ LockIssuance(r) \/ RetireOpen(r)
                \/ StagePending(r) \/ LockPending(r) \/ InsertUser(r),
             ~Finish(r)
      PROVE  Accepting(q)'
  <2>1. CASE q = r
    <3>1. pc[r] # "commit" /\ req'[r] = req[r]
      BY <1>6
      DEF ResolveRequestInvitation, LookupUser, LockIssuance, RetireOpen, StagePending,
          LockPending, InsertUser
    <3> QED
      BY <2>1, <3>1 DEF Accepting
  <2>2. CASE q # r
    BY <1>6, <2>2, OthersKeepAccepting
    DEF ResolveRequestInvitation, LookupUser, LockIssuance, RetireOpen, StagePending,
        LockPending, InsertUser, Unlock
  <2> QED
    BY <2>1, <2>2
<1>7. CASE RevokeInvitation
  <2>1. invLock # q /\ UNCHANGED <<pc, req>>
    BY <1>7 DEF RevokeInvitation
  <2> QED
    BY <2>1 DEF Accepting
<1>8. ASSUME UNCHANGED <<pc, req, address, invLock, invitation>> PROVE Accepting(q)'
  BY <1>8 DEF Accepting
<1>9. ASSUME NEW r \in Request, Deliver(r) \/ CommitMove(r) \/ Fail(r) PROVE Accepting(q)'
  <2>1. Finish(r) /\ UNCHANGED invitation
    BY <1>9 DEF Deliver, CommitMove, Fail
  <2> QED
    BY <2>1, <1>1
<1>10. ASSUME NEW r \in Request,
              \/ ResolveRequestInvitation(r) \/ LookupUser(r) \/ LockIssuance(r) \/ RetireOpen(r)
              \/ StagePending(r) \/ LockPending(r) \/ InsertUser(r)
       PROVE  Accepting(q)'
  <2>1. UNCHANGED invitation
    BY <1>10 DEF ResolveRequestInvitation, LookupUser, LockIssuance, RetireOpen, StagePending,
                 LockPending, InsertUser
  <2> QED
    BY <1>10, <2>1, <1>1, <1>6
<1>11. ASSUME SeatsChange \/ (\E g \in Generation : Expire(g)) \/ UNCHANGED vars
       PROVE  Accepting(q)'
  <2>1. UNCHANGED <<pc, req, address, invLock, invitation>>
    BY <1>11 DEF SeatsChange, Expire, vars
  <2> QED
    BY <2>1, <1>8
<1> QED
  BY <1>2, <1>3, <1>4, <1>5, <1>7, <1>9, <1>10, <1>11 DEF Next

\* Steps that touch the invitation or who joined through it.
LEMMA InvitationWriters ==
  [Next]_vars => \/ UNCHANGED <<invitation, joined>>
                 \/ invitation' = "revoked" /\ UNCHANGED joined
                 \/ \E r \in Request : CommitCompletion(r)
  BY DEF Next, Register, ResolveRequestInvitation, LookupUser, LockIssuance, RetireOpen,
         StagePending, Deliver, Complete, PreRead, LockPending, InsertUser, SettleInvitation,
         MoveAccount, CommitMove, Fail, RevokeInvitation, SeatsChange, Expire, vars

\* Whoever joins takes the invitation out of pending in the same step.
LEMMA PendingStep == IInv /\ [Next]_vars => PendingIsUntaken'
  BY InvitationWriters DEF IInv, PendingIsUntaken, CommitCompletion

\* The invariant holds in every behaviour.
THEOREM Invariance == Spec => []IInv
<1>1. IInv /\ [Next]_vars => IInv'
  BY TypeStep, StagedStep, ApartStep, NewestStep, LocksStep, MailedStep, PendingStep,
     StageStep, RowHeldStep, ClaimedStep, AcceptingStep
  DEF IInv
<1> QED
  BY InitInv, <1>1, PTL DEF Spec

-----------------------------------------------------------------------------
\* Type correctness of generations, addresses, the invitation and the requests.
THEOREM TypeCorrect == Spec => []TypeOK
<1>1. IInv => TypeOK
  BY DEF IInv
<1> QED
  BY Invariance, <1>1, PTL

\* Every link that left in an email was durably staged first
\* (registration.service.ts).
THEOREM MailedWasStagedKept == Spec => []MailedWasStaged
<1>1. IInv => MailedWasStaged
  BY DEF IInv
<1> QED
  BY Invariance, <1>1, PTL

\* An address has at most one generation that can still be completed, whatever
\* requests and completions interleave (registration.repo.ts, stagePending).
OneOpenPerAddress ==
    \A g, h \in Generation :
        status[g] = "open" /\ status[h] = "open" /\ address[g] = address[h] => g = h

\* stagePending retires what is open under the advisory lock of the address.
THEOREM OneOpenKept == Spec => []OneOpenPerAddress
<1>1. IInv => OneOpenPerAddress
  <2> SUFFICES ASSUME IInv, NEW g \in Generation, NEW h \in Generation,
                      status[g] = "open", status[h] = "open", address[g] = address[h]
               PROVE  g = h
    BY DEF OneOpenPerAddress
  <2>1. PICK i \in DOMAIN staged, j \in DOMAIN staged : staged[i] = g /\ staged[j] = h
    BY DEF IInv, Staged, Range
  <2>2. DOMAIN staged \subseteq Nat
    BY DEF IInv, Staged
  <2>3. i = j \/ i < j \/ j < i
    BY <2>1, <2>2
  <2> QED
    BY <2>1, <2>3 DEF IInv, OpenIsNewest
<1> QED
  BY Invariance, <1>1, PTL

\* The link that opens an account is the one staged last for its address: older
\* links fail as superseded (registration.repo.ts).
THEOREM NewestLinkAlwaysWins == Spec => NewestLinkWins
<1> DEFINE Wins ==
       \A g \in Generation :
          status[g] # "used" /\ status'[g] = "used" =>
             \E i \in DOMAIN staged :
                /\ staged[i] = g
                /\ \A j \in DOMAIN staged : i < j => address[staged[j]] # address[g]
<1>1. IInv /\ [Next]_vars => [Wins]_vars
  <2> SUFFICES ASSUME IInv, [Next]_vars, NEW g \in Generation,
                      status[g] # "used", status'[g] = "used"
               PROVE  \E i \in DOMAIN staged :
                        /\ staged[i] = g
                        /\ \A j \in DOMAIN staged : i < j => address[staged[j]] # address[g]
    OBVIOUS
  <2>1. status[g] = "open"
    <3>1. ASSUME NEW r \in Request, StagePending(r) PROVE FALSE
      BY <3>1, Staging DEF StagedStatus, IInv, TypeOK, LocksAreOnOpen
    <3>2. ASSUME NEW r \in Request, CommitCompletion(r) PROVE status[g] = "open"
      BY <3>2, Completion
    <3> QED
      BY <3>1, <3>2, PendingWriters
  <2>2. PICK i \in DOMAIN staged : staged[i] = g
    BY <2>1 DEF IInv, Staged, Range
  <2> QED
    BY <2>1, <2>2 DEF IInv, OpenIsNewest
<1> QED
  BY Invariance, <1>1, PTL DEF Spec, NewestLinkWins

\* An account joins through an invitation that is pending at its commit, for the
\* address it was sent to, and only one does (registration.repo.ts, the
\* savepoint of completeRegistration).
THEOREM JoinsAreHonored == Spec => JoinIsHonored
<1> DEFINE Honored == joined' # joined =>
          /\ invitation = "pending" /\ joined = {}
          /\ \A g \in joined' : holder'[InvitedEmail] = g /\ holder[InvitedEmail] = None
<1>1. IInv /\ [Next]_vars => [Honored]_vars
  <2> SUFFICES ASSUME IInv, [Next]_vars, joined' # joined
               PROVE  /\ invitation = "pending" /\ joined = {}
                      /\ \A g \in joined' : /\ holder'[InvitedEmail] = g
                                            /\ holder[InvitedEmail] = None
    OBVIOUS
  <2>1. PICK r \in Request : CommitCompletion(r)
    BY InvitationWriters
  <2>2. /\ req[r].op = "complete" /\ req[r].accepts /\ pc[r] = "commit"
        /\ joined' = joined \cup {req[r].gen}
        /\ holder' = [holder EXCEPT ![address[req[r].gen]] = req[r].gen]
    BY <2>1 DEF CommitCompletion
  <2>3. invitation = "pending" /\ address[req[r].gen] = InvitedEmail
    BY <2>2 DEF IInv, Accepting
  <2>4. joined = {} /\ holder[InvitedEmail] = None
    BY <2>2, <2>3 DEF IInv, PendingIsUntaken, Claimed
  <2>5. holder'[InvitedEmail] = req[r].gen
    BY <2>2, <2>3 DEF IInv, TypeOK
  <2> QED
    BY <2>2, <2>3, <2>4, <2>5
<1> QED
  BY Invariance, <1>1, PTL DEF Spec, JoinIsHonored

-----------------------------------------------------------------------------
\* Who has an account, as Accounts.tla sees it.
Opened == {Founder} \cup {g \in Generation : status[g] = "used"}

\* The steps that change who has an account.
LEMMA AccountWriters ==
  ASSUME IInv, [Next]_vars
  PROVE  \/ UNCHANGED <<holder, Opened>>
         \/ \E r \in Request : CommitCompletion(r)
         \/ \E r \in Request : CommitMove(r) /\ UNCHANGED Opened
<1>1. ASSUME NEW r \in Request, StagePending(r) PROVE UNCHANGED <<holder, Opened>>
  <2>1. UNCHANGED holder
    BY <1>1 DEF StagePending
  <2>2. \A g \in Generation : status'[g] = "used" <=> status[g] = "used"
    BY <1>1, Staging DEF StagedStatus, IInv, TypeOK, LocksAreOnOpen
  <2> QED
    BY <2>1, <2>2 DEF Opened
<1> QED
  BY <1>1
  DEF Next, Register, ResolveRequestInvitation, LookupUser, LockIssuance, RetireOpen,
      Deliver, Complete, PreRead, LockPending, InsertUser, SettleInvitation, MoveAccount,
      CommitMove, Fail, RevokeInvitation, SeatsChange, Expire, vars, Opened

\* Registration implements Accounts: an account is opened once, on a free
\* address, by the link that is used up in the same step, and only moves to a
\* free address.
THEOREM Refinement == Spec => ImplementsAccounts
<1>1. Init => Accounts!Init
  <2> SUFFICES ASSUME Init PROVE Accounts!Init
    OBVIOUS
  <2>1. \A g \in Generation : status[g] # "used"
    BY DEF Init
  <2>2. \A e, f \in Email : holder[e] # None /\ holder[e] = holder[f] => e = f
    BY DEF Init
  <2>3. holder \in [Email -> {Founder, None}]
    BY DEF Init
  <2> QED
    BY <2>1, <2>2, <2>3 DEF Accounts!Init
<1>2. IInv /\ [Next]_vars => [Accounts!Next]_(Accounts!vars)
  <2> SUFFICES ASSUME IInv, [Next]_vars PROVE [Accounts!Next]_(Accounts!vars)
    OBVIOUS
  <2>1. CASE UNCHANGED <<holder, Opened>>
    BY <2>1 DEF Accounts!vars, Opened
  <2>2. ASSUME NEW r \in Request, CommitCompletion(r) PROVE Accounts!Next
    <3>1. PICK g \in Generation :
             /\ g = req[r].gen /\ req[r].op = "complete" /\ pc[r] = "commit"
             /\ status[g] = "open" /\ status'[g] = "used" /\ address[g] \in Email
             /\ \A h \in Generation \ {g} : status'[h] = "used" <=> status[h] = "used"
             /\ holder' = [holder EXCEPT ![address[g]] = g]
      <4>1. pc[r] = "commit" /\ holder' = [holder EXCEPT ![address[req[r].gen]] = req[r].gen]
        BY <2>2 DEF CommitCompletion
      <4>2. PICK g \in Generation :
               /\ g = req[r].gen /\ req[r].op = "complete"
               /\ status[g] = "open" /\ status'[g] = "used" /\ address[g] \in Email
               /\ \A h \in Generation \ {g} :
                     IF status[h] = "open" /\ address[h] = address[g]
                        THEN rowLock[h] = None /\ status'[h] = "superseded"
                        ELSE status'[h] = status[h]
        BY <2>2, Completion
      <4>3. \A h \in Generation \ {g} : status'[h] = "used" <=> status[h] = "used"
        BY <4>2
      <4> QED
        BY <4>1, <4>2, <4>3
    <3>2. holder[address[g]] = None
      BY <3>1 DEF IInv, Claimed
    <3>3. g \notin Opened /\ Opened' = Opened \cup {g}
      BY <3>1 DEF Opened
    <3>4. Accounts!Open(address[g], g)
      BY <3>1, <3>2, <3>3 DEF Accounts!Open, Opened
    <3> QED
      BY <3>1, <3>4 DEF Accounts!Next
  <2>3. ASSUME NEW r \in Request, CommitMove(r), UNCHANGED Opened PROVE Accounts!Next
    <3>1. /\ req[r].from \in Email /\ req[r].to \in Email
          /\ holder[req[r].from] # None /\ holder[req[r].to] = None
      BY <2>3 DEF CommitMove, IInv, Stage, Claimed
    <3>2. Accounts!Move(req[r].from, req[r].to)
      BY <2>3, <3>1 DEF CommitMove, Accounts!Move, Opened
    <3> QED
      BY <3>1, <3>2 DEF Accounts!Next
  <2> QED
    BY <2>1, <2>2, <2>3, AccountWriters
<1> QED
  BY Invariance, <1>1, <1>2, PTL DEF Spec, ImplementsAccounts, Accounts!Spec
=============================================================================
