------------------------- MODULE Invitations_proofs -------------------------
(***************************************************************************)
(* Invitations and seats for any number of emails, invitation rows, plans  *)
(* and concurrent requests.                                                *)
(*                                                                         *)
(* The argument rests on SeatsAreCurrent.  Only the holder of the advisory *)
(* lock adds a member or a reservation, and no plan changes under its FOR  *)
(* SHARE, so what it counted can only have gone down when it writes.  The  *)
(* lock order gives the absence of deadlocks: whoever has an invitation    *)
(* row waits for nothing, and whoever has the seats waits for such a row   *)
(* at most.                                                                *)
(***************************************************************************)
EXTENDS Invitations, FiniteSetTheorems, TLAPS

USE DEF Start, Goto, rows, invitations, locks, reads

\* Which steps an operation takes, and which operations lock invitations.
Stages ==
    \A r \in Request :
        /\ pc[r] \in {"seats", "plan", "count"} => req[r].op # "revoke"
        /\ pc[r] = "row" => req[r].op # "create"
        /\ \A i \in Invitation : rowLock[i] = r => req[r].op # "create"

IInv == TypeOK /\ Stages /\ SeatsAreCurrent

\* The initial states satisfy the invariant.
LEMMA InitInv == Init => IInv
<1> SUFFICES ASSUME Init PROVE IInv
  OBVIOUS
<1> USE FounderAssumption, TimeAssumption, NoneAssumption DEF Init
<1>1. TypeOK
  BY DEF TypeOK, Role, NoParams
<1>2. Stages /\ SeatsAreCurrent
  BY DEF Stages, SeatsAreCurrent, HasSeats, HasPlan
<1> QED
  BY <1>1, <1>2 DEF IInv

\* TypeOK in two halves: the rows and the clock, the requests and their locks.
RowTypes ==
    /\ member \in [Email -> Role \cup {"none"}]
    /\ status \in [Invitation -> {"absent", "pending", "accepted", "revoked", "expired"}]
    /\ email \in [Invitation -> Email \cup {None}]
    /\ role \in [Invitation -> Role] /\ grantor \in [Invitation -> Role]
    /\ expiresAt \in [Invitation -> 0..(MaxTime + Ttl)]
    /\ plan \in Plan /\ clock \in 0..MaxTime
RequestTypes ==
    /\ pc \in [Request -> {"idle", "begin", "seats", "plan", "row", "count", "write"}]
    /\ req \in [Request -> Params \cup {NoParams}]
    /\ \A r \in Request : pc[r] = "idle" <=> req[r] = NoParams
    /\ now \in [Request -> 0..MaxTime]
    /\ limit \in [Request -> Nat]
    /\ fits \in [Request -> BOOLEAN]
LockTypes ==
    /\ seatLock \in Request \cup {None}
    /\ planShare \subseteq Request
    /\ rowLock \in [Invitation -> Request \cup {None}]
    /\ \A r \in Request :
          /\ seatLock = r => pc[r] \in {"plan", "row", "count", "write"}
          /\ r \in planShare => seatLock = r
          /\ \A i \in Invitation : rowLock[i] = r => pc[r] \in {"count", "write"}

\* TypeOK is the conjunction of its parts.
LEMMA TypeParts == TypeOK <=> RowTypes /\ RequestTypes /\ LockTypes
  BY DEF TypeOK, RowTypes, RequestTypes, LockTypes

\* The same of the next state.
LEMMA TypePartsNext == TypeOK' <=> RowTypes' /\ RequestTypes' /\ LockTypes'
  BY DEF TypeOK, RowTypes, RequestTypes, LockTypes

\* The end of a transaction gives back its locks and leaves an idle request.
LEMMA FinishTypes ==
  ASSUME NEW r \in Request, RequestTypes, LockTypes, Finish(r)
  PROVE  RequestTypes' /\ LockTypes'
<1>1. RequestTypes'
  <2> USE DEF RequestTypes, Finish
  <2>1. pc' \in [Request -> {"idle", "begin", "seats", "plan", "row", "count", "write"}]
        /\ req' \in [Request -> Params \cup {NoParams}]
    OBVIOUS
  <2>2. \A q \in Request : pc'[q] = "idle" <=> req'[q] = NoParams
    OBVIOUS
  <2>3. now' \in [Request -> 0..MaxTime] /\ limit' \in [Request -> Nat]
        /\ fits' \in [Request -> BOOLEAN]
    BY TimeAssumption
  <2> QED
    BY <2>1, <2>2, <2>3
<1>2. LockTypes'
  BY NoneAssumption DEF LockTypes, RequestTypes, Finish
<1> QED
  BY <1>1, <1>2

\* Every step keeps every variable in its domain.
LEMMA TypeStep == IInv /\ [Next]_vars => TypeOK'
<1> SUFFICES ASSUME IInv, [Next]_vars
             PROVE  RowTypes' /\ RequestTypes' /\ LockTypes'
  BY TypePartsNext
<1>0. RowTypes /\ RequestTypes /\ LockTypes
  BY TypeParts DEF IInv
<1> DEFINE Types == RowTypes' /\ RequestTypes' /\ LockTypes'
<1> USE DEF Role
<1>1. ASSUME NEW r \in Request, AuthorizeCreate(r) PROVE Types
  <2>1. RowTypes' /\ LockTypes'
    BY <1>0, <1>1 DEF AuthorizeCreate, RowTypes, LockTypes
  <2>2. RequestTypes'
    BY <1>0, <1>1, TimeAssumption, RoleAssumption
    DEF AuthorizeCreate, RowTypes, RequestTypes, Params, NoParams, Members, Manages
  <2> QED
    BY <2>1, <2>2
<1>2. ASSUME NEW r \in Request, PresentInvitation(r) PROVE Types
  <2>1. RowTypes' /\ LockTypes'
    BY <1>0, <1>2 DEF PresentInvitation, RowTypes, LockTypes
  <2>2. RequestTypes'
    BY <1>0, <1>2 DEF PresentInvitation, RowTypes, RequestTypes, Params, NoParams
  <2> QED
    BY <2>1, <2>2
<1>3. ASSUME NEW r \in Request, AuthorizeRevoke(r) PROVE Types
  <2>1. RowTypes' /\ LockTypes'
    BY <1>0, <1>3 DEF AuthorizeRevoke, RowTypes, LockTypes
  <2>2. RequestTypes'
    BY <1>0, <1>3 DEF AuthorizeRevoke, RequestTypes, Params, NoParams
  <2> QED
    BY <2>1, <2>2
<1>4. ASSUME NEW r \in Request, Begin(r) PROVE Types
  <2>1. RowTypes' /\ LockTypes'
    BY <1>0, <1>4 DEF Begin, RowTypes, LockTypes, RequestTypes
  <2>2. RequestTypes'
    BY <1>0, <1>4 DEF Begin, RowTypes, RequestTypes
  <2> QED
    BY <2>1, <2>2
<1>5. ASSUME NEW r \in Request, LockSeats(r) PROVE Types
  BY <1>0, <1>5, NoneAssumption DEF LockSeats, RowTypes, RequestTypes, LockTypes
<1>6. ASSUME NEW r \in Request, LockPlan(r) PROVE Types
  <2>1. seatLock = r
    BY <1>6 DEF LockPlan, IInv, Stages, SeatsAreCurrent, HasSeats
  <2>2. RowTypes' /\ LockTypes'
    BY <1>0, <1>6, <2>1 DEF LockPlan, RowTypes, LockTypes, RequestTypes
  <2>3. RequestTypes'
    BY <1>0, <1>6, MaxMembersAssumption DEF LockPlan, RowTypes, RequestTypes
  <2> QED
    BY <2>2, <2>3
<1>7. ASSUME NEW r \in Request, LockInvitation(r) PROVE Types
  <2>1. RowTypes' /\ RequestTypes'
    BY <1>0, <1>7 DEF LockInvitation, RowTypes, RequestTypes
  <2>2. rowLock' \in [Invitation -> Request \cup {None}]
    BY <1>0, <1>7 DEF LockInvitation, LockTypes
  <2>3. \A q \in Request, i \in Invitation :
           rowLock'[i] = q => pc'[q] \in {"count", "write"}
    BY <1>0, <1>7 DEF LockInvitation, LockTypes, RequestTypes
  <2>4. \A q \in Request : /\ seatLock' = q => pc'[q] \in {"plan", "row", "count", "write"}
                           /\ q \in planShare' => seatLock' = q
    BY <1>0, <1>7 DEF LockInvitation, LockTypes, RequestTypes
  <2> QED
    BY <1>0, <1>7, <2>1, <2>2, <2>3, <2>4 DEF LockInvitation, LockTypes
<1>8. ASSUME NEW r \in Request, CountSeats(r) PROVE Types
  <2>1. Fits(SeatsTaken(r), limit[r]) \in BOOLEAN
    BY DEF Fits
  <2>2. RowTypes' /\ RequestTypes'
    BY <1>0, <1>8, <2>1 DEF CountSeats, RowTypes, RequestTypes
  <2>3. LockTypes'
    BY <1>0, <1>8 DEF CountSeats, LockTypes, RequestTypes
  <2> QED
    BY <2>2, <2>3
<1>9. ASSUME NEW r \in Request, CommitCreate(r) PROVE Types
  <2>1. req[r] \in Params /\ req[r].op = "create"
    BY <1>0, <1>9 DEF CommitCreate, RequestTypes, NoParams
  <2>2. RowTypes'
    BY <1>0, <1>9, <2>1 DEF CommitCreate, RowTypes, Params
  <2> QED
    BY <1>0, <1>9, <2>2, FinishTypes DEF CommitCreate
<1>10. ASSUME NEW r \in Request, CommitAccept(r) PROVE Types
  <2>1. req[r] \in Params /\ req[r].op = "accept"
    BY <1>0, <1>10 DEF CommitAccept, RequestTypes, NoParams
  <2>2. RowTypes'
    BY <1>0, <1>10, <2>1 DEF CommitAccept, RowTypes, Params
  <2> QED
    BY <1>0, <1>10, <2>2, FinishTypes DEF CommitAccept
<1>11. ASSUME NEW r \in Request, CommitRevoke(r) PROVE Types
  <2>1. RowTypes'
    BY <1>0, <1>11 DEF CommitRevoke, RowTypes
  <2> QED
    BY <1>0, <1>11, <2>1, FinishTypes DEF CommitRevoke
<1>12. ASSUME NEW r \in Request, Refuse(r) \/ Abort(r) PROVE Types
  <2>1. RowTypes'
    BY <1>0, <1>12 DEF Refuse, Abort, RowTypes
  <2> QED
    BY <1>0, <1>12, <2>1, FinishTypes DEF Refuse, Abort
<1>13. CASE ChangePlan \/ Tick \/ UNCHANGED vars
  <2>1. RowTypes'
    BY <1>0, <1>13, TimeAssumption DEF ChangePlan, Tick, vars, RowTypes
  <2>2. RequestTypes' /\ LockTypes'
    BY <1>0, <1>13 DEF ChangePlan, Tick, vars, RequestTypes, LockTypes
  <2> QED
    BY <2>1, <2>2
<1>14. ASSUME NEW e \in Email, RemoveMember(e) PROVE Types
  BY <1>0, <1>14 DEF RemoveMember, RowTypes, RequestTypes, LockTypes
<1> QED
  BY <1>1, <1>2, <1>3, <1>4, <1>5, <1>6, <1>7, <1>8, <1>9, <1>10, <1>11, <1>12,
     <1>13, <1>14 DEF Next

\* Every step keeps the operations on their paths.
LEMMA StagesStep == IInv /\ [Next]_vars => Stages'
<1> SUFFICES ASSUME IInv, [Next]_vars PROVE Stages'
  OBVIOUS
<1>0. Stages /\ RequestTypes /\ LockTypes
  BY TypeParts DEF IInv
<1> USE DEF Stages
<1>1. ASSUME NEW r \in Request, Finish(r) PROVE Stages'
  BY <1>0, <1>1, NoneAssumption DEF Finish, RequestTypes, LockTypes
<1>2. ASSUME NEW r \in Request,
             AuthorizeCreate(r) \/ PresentInvitation(r) \/ AuthorizeRevoke(r)
      PROVE  Stages'
  <2>1. pc[r] = "idle" /\ pc' = [pc EXCEPT ![r] = "begin"] /\ rowLock' = rowLock
        /\ \A q \in Request \ {r} : req'[q] = req[q]
    BY <1>0, <1>2
    DEF AuthorizeCreate, PresentInvitation, AuthorizeRevoke, RequestTypes
  <2> QED
    BY <1>0, <2>1 DEF RequestTypes, LockTypes
<1>3. ASSUME NEW r \in Request, Begin(r) PROVE Stages'
  BY <1>0, <1>3 DEF Begin, RequestTypes
<1>4. ASSUME NEW r \in Request, LockSeats(r) \/ LockPlan(r) \/ CountSeats(r)
      PROVE  Stages'
  BY <1>0, <1>4 DEF LockSeats, LockPlan, CountSeats, RequestTypes
<1>5. ASSUME NEW r \in Request, LockInvitation(r) PROVE Stages'
  <2>1. \A q \in Request : /\ pc'[q] \in {"seats", "plan", "count"} => req'[q].op # "revoke"
                           /\ pc'[q] = "row" => req'[q].op # "create"
    BY <1>0, <1>5 DEF LockInvitation, RequestTypes
  <2>2. \A q \in Request, i \in Invitation : rowLock'[i] = q => req'[q].op # "create"
    BY <1>0, <1>5 DEF LockInvitation, RequestTypes, LockTypes
  <2> QED
    BY <2>1, <2>2
<1>6. CASE ChangePlan \/ Tick \/ UNCHANGED vars \/ \E e \in Email : RemoveMember(e)
  BY <1>0, <1>6 DEF ChangePlan, Tick, RemoveMember, vars
<1> QED
  BY <1>1, <1>2, <1>3, <1>4, <1>5, <1>6
  DEF Next, CommitCreate, CommitAccept, CommitRevoke, Refuse, Abort

-----------------------------------------------------------------------------
(* Counting *)

\* The seats a request counts are a number.
LEMMA SeatsTakenType == ASSUME NEW r PROVE SeatsTaken(r) \in Nat
<1>1. IsFiniteSet(Members) /\ IsFiniteSet(Reserved(now[r]))
  BY FiniteAssumption, FS_Subset DEF Members, Reserved, Pending
<1>2. Cardinality(Members) \in Nat /\ Cardinality(Reserved(now[r])) \in Nat
  BY <1>1, FS_CardinalityType
<1> QED
  BY <1>2 DEF SeatsTaken

\* The same of the next state.
LEMMA SeatsTakenTypeNext == ASSUME NEW r PROVE SeatsTaken(r)' \in Nat
<1>1. IsFiniteSet(Members') /\ IsFiniteSet(Reserved(now[r])')
  BY FiniteAssumption, FS_Subset DEF Members, Reserved, Pending
<1>2. Cardinality(Members') \in Nat /\ Cardinality(Reserved(now[r])') \in Nat
  BY <1>1, FS_CardinalityType
<1> QED
  BY <1>2 DEF SeatsTaken

\* Without a new member and a new invitation, the count does not grow.
LEMMA SeatsTakenShrinks ==
  ASSUME NEW r, req'[r].op = req[r].op,
         Members' \subseteq Members, Reserved(now[r])' \subseteq Reserved(now[r])
  PROVE  SeatsTaken(r)' <= SeatsTaken(r)
<1>1. IsFiniteSet(Members) /\ IsFiniteSet(Reserved(now[r]))
  BY FiniteAssumption, FS_Subset DEF Members, Reserved, Pending
<1>2. /\ IsFiniteSet(Members') /\ Cardinality(Members') <= Cardinality(Members)
      /\ IsFiniteSet(Reserved(now[r])')
      /\ Cardinality(Reserved(now[r])') <= Cardinality(Reserved(now[r]))
  BY <1>1, FS_Subset
<1>3. /\ Cardinality(Members) \in Nat /\ Cardinality(Reserved(now[r])) \in Nat
      /\ Cardinality(Members') \in Nat /\ Cardinality(Reserved(now[r])') \in Nat
  BY <1>1, <1>2, FS_CardinalityType
<1> QED
  BY <1>2, <1>3 DEF SeatsTaken

-----------------------------------------------------------------------------
(* SeatsAreCurrent is inductive *)

\* SeatsAreCurrent for one request.
Current(q) ==
    /\ HasSeats(q) => seatLock = q
    /\ HasPlan(q)  => q \in planShare /\ limit[q] = MaxMembers[plan]
    /\ HasPlan(q) /\ pc[q] = "write" /\ fits[q] => SeatsTaken(q) < limit[q]

\* A step that leaves a request alone, takes none of its locks away, and, if it
\* has the plan locked, changes neither the plan nor adds to the seats, keeps
\* what the request has read current.
LEMMA OthersKeepCurrent ==
  ASSUME NEW q \in Request, TypeOK, limit[q] \in Nat, Current(q),
         pc'[q] = pc[q], req'[q] = req[q],
         limit'[q] = limit[q], fits'[q] = fits[q],
         seatLock = q => seatLock' = q,
         q \in planShare => q \in planShare',
         HasPlan(q) => plan' = plan,
         HasPlan(q) => /\ Members' \subseteq Members
                       /\ Reserved(now[q])' \subseteq Reserved(now[q])
  PROVE  Current(q)'
<1>1. (HasSeats(q) => seatLock = q)'
  BY DEF Current, HasSeats
<1>2. (HasPlan(q) => q \in planShare /\ limit[q] = MaxMembers[plan])'
  BY DEF Current, HasPlan, HasSeats
<1>3. (HasPlan(q) /\ pc[q] = "write" /\ fits[q] => SeatsTaken(q) < limit[q])'
  <2> SUFFICES ASSUME HasPlan(q)', pc'[q] = "write", fits'[q]
               PROVE  SeatsTaken(q)' < limit'[q]
    OBVIOUS
  <2>1. HasPlan(q) /\ SeatsTaken(q) < limit[q]
    BY DEF Current, HasPlan, HasSeats
  <2>2. SeatsTaken(q)' <= SeatsTaken(q)
    BY <2>1, SeatsTakenShrinks
  <2>3. SeatsTaken(q) \in Nat /\ SeatsTaken(q)' \in Nat
    <3>1. SeatsTaken(q) \in Nat
      BY SeatsTakenType
    <3>2. SeatsTaken(q)' \in Nat
      BY SeatsTakenTypeNext
    <3> QED
      BY <3>1, <3>2
  <2> QED
    BY <2>1, <2>2, <2>3
<1> QED
  BY <1>1, <1>2, <1>3 DEF Current

\* Two requests do not both have the seats.
LEMMA OneHasSeats ==
  ASSUME SeatsAreCurrent, NEW q \in Request, NEW r \in Request,
         HasSeats(q), HasSeats(r)
  PROVE  q = r
  BY DEF SeatsAreCurrent

\* The step of a request that leaves the plan alone and neither adds a member nor
\* a reservation unless that request has the seats keeps every other request's
\* reads current.
LEMMA StepOfAnother ==
  ASSUME IInv, NEW r \in Request, NEW q \in Request \ {r},
         /\ pc' = [pc EXCEPT ![r] = pc'[r]] /\ req' = [req EXCEPT ![r] = req'[r]]
         /\ now' = [now EXCEPT ![r] = now'[r]]
         /\ limit' = [limit EXCEPT ![r] = limit'[r]]
         /\ fits' = [fits EXCEPT ![r] = fits'[r]],
         seatLock \in {r, None} \/ seatLock' = seatLock,
         planShare \ {r} \subseteq planShare',
         plan' = plan,
         \/ HasSeats(r)
         \/ UNCHANGED <<member, status, expiresAt>>
         \/ member' = member /\ expiresAt' = expiresAt
               /\ \E i \in Invitation : status' = [status EXCEPT ![i] = "revoked"]
  PROVE  Current(q)'
<1>1. RequestTypes /\ SeatsAreCurrent /\ TypeOK /\ LockTypes
  BY TypeParts DEF IInv
<1>2. Current(q)
  BY <1>1 DEF SeatsAreCurrent, Current
<1>3. /\ pc'[q] = pc[q] /\ req'[q] = req[q] /\ now'[q] = now[q]
      /\ limit'[q] = limit[q] /\ fits'[q] = fits[q] /\ limit[q] \in Nat
  BY <1>1 DEF RequestTypes
<1>4. seatLock = q => seatLock' = q
  BY NoneAssumption
<1>5. q \in planShare => q \in planShare'
  OBVIOUS
<1>6. ASSUME HasPlan(q)
      PROVE  Members' \subseteq Members /\ Reserved(now[q])' \subseteq Reserved(now[q])
  <2>1. ~HasSeats(r)
    BY <1>1, <1>6, OneHasSeats DEF HasPlan
  <2>2. member' = member /\ expiresAt' = expiresAt
        /\ \A i \in Invitation : status'[i] = "pending" => status[i] = "pending"
    BY <2>1, <1>1 DEF TypeOK
  <2> QED
    BY <2>2, <1>3 DEF Members, Reserved, Pending
<1> QED
  BY <1>1, <1>2, <1>3, <1>4, <1>5, <1>6, OthersKeepCurrent

\* Every step keeps what the transactions have read of the seats current.
LEMMA SeatsStep == IInv /\ [Next]_vars => SeatsAreCurrent'
<1> SUFFICES ASSUME IInv, [Next]_vars, NEW q \in Request PROVE Current(q)'
  BY DEF SeatsAreCurrent, Current
<1>0. /\ RequestTypes /\ LockTypes /\ TypeOK /\ Stages
      /\ \A p \in Request : Current(p)
  BY TypeParts DEF IInv, SeatsAreCurrent, Current
<1>1. ASSUME NEW r \in Request,
             AuthorizeCreate(r) \/ PresentInvitation(r) \/ AuthorizeRevoke(r)
      PROVE  Current(q)'
  <2>1. /\ pc' = [pc EXCEPT ![r] = "begin"] /\ req' = [req EXCEPT ![r] = req'[r]]
        /\ UNCHANGED <<rows, locks, clock, reads>>
    BY <1>0, <1>1
    DEF AuthorizeCreate, PresentInvitation, AuthorizeRevoke, RequestTypes
  <2>2. CASE q = r
    BY <1>0, <2>1, <2>2 DEF Current, HasSeats, HasPlan, RequestTypes
  <2>3. CASE q # r
    BY <1>0, <2>1, <2>3, StepOfAnother DEF RequestTypes
  <2> QED
    BY <2>2, <2>3
<1>2. ASSUME NEW r \in Request, Finish(r), plan' = plan,
             \/ HasSeats(r)
             \/ UNCHANGED <<member, status, expiresAt>>
             \/ member' = member /\ expiresAt' = expiresAt
                   /\ \E i \in Invitation : status' = [status EXCEPT ![i] = "revoked"]
      PROVE  Current(q)'
  <2>1. /\ pc' = [pc EXCEPT ![r] = "idle"] /\ req' = [req EXCEPT ![r] = req'[r]]
        /\ now' = [now EXCEPT ![r] = now'[r]] /\ limit' = [limit EXCEPT ![r] = limit'[r]]
        /\ fits' = [fits EXCEPT ![r] = fits'[r]]
        /\ seatLock \in {r, None} \/ seatLock' = seatLock
        /\ planShare \ {r} \subseteq planShare'
    BY <1>0, <1>2 DEF Finish, RequestTypes
  <2>2. CASE q = r
    BY <1>0, <2>1, <2>2 DEF Current, HasSeats, HasPlan, RequestTypes
  <2>3. CASE q # r
    BY <1>0, <1>2, <2>1, <2>3, StepOfAnother DEF RequestTypes
  <2> QED
    BY <2>2, <2>3
<1>3. ASSUME NEW r \in Request, Begin(r) PROVE Current(q)'
  <2>1. CASE q = r
    BY <1>0, <1>3, <2>1 DEF Begin, Current, HasSeats, HasPlan, RequestTypes
  <2>2. CASE q # r
    BY <1>0, <1>3, <2>2, StepOfAnother DEF Begin, RequestTypes
  <2> QED
    BY <2>1, <2>2
<1>4. ASSUME NEW r \in Request, LockSeats(r) PROVE Current(q)'
  <2>1. CASE q = r
    BY <1>0, <1>4, <2>1 DEF LockSeats, Current, HasSeats, HasPlan, RequestTypes
  <2>2. CASE q # r
    BY <1>0, <1>4, <2>2, StepOfAnother DEF LockSeats, RequestTypes
  <2> QED
    BY <2>1, <2>2
<1>5. ASSUME NEW r \in Request, LockPlan(r) PROVE Current(q)'
  <2>1. CASE q = r
    BY <1>0, <1>5, <2>1 DEF LockPlan, Current, HasSeats, HasPlan, RequestTypes
  <2>2. CASE q # r
    BY <1>0, <1>5, <2>2, StepOfAnother DEF LockPlan, RequestTypes
  <2> QED
    BY <2>1, <2>2
<1>6. ASSUME NEW r \in Request, LockInvitation(r) PROVE Current(q)'
  <2>1. CASE q = r
    <3>1. /\ pc[q] = "row" /\ req'[q] = req[q] /\ limit'[q] = limit[q]
          /\ pc'[q] = IF req[q].op = "accept" THEN "count" ELSE "write"
          /\ UNCHANGED <<plan, seatLock, planShare>>
      BY <1>0, <1>6, <2>1 DEF LockInvitation, RequestTypes
    <3>2. req[q].op # "accept" => req[q].op = "revoke"
      BY <1>0, <3>1 DEF Stages, RequestTypes, Params, NoParams
    <3> QED
      BY <1>0, <3>1, <3>2 DEF Current, HasSeats, HasPlan
  <2>2. CASE q # r
    BY <1>0, <1>6, <2>2, StepOfAnother DEF LockInvitation, RequestTypes
  <2> QED
    BY <2>1, <2>2
<1>7. ASSUME NEW r \in Request, CountSeats(r) PROVE Current(q)'
  <2>1. CASE q = r
    <3>1. SeatsTaken(q)' = SeatsTaken(q)
      BY <1>7 DEF CountSeats, SeatsTaken, Members, Reserved, Pending
    <3>2. pc'[q] = "write" /\ req'[q] = req[q] /\ limit'[q] = limit[q]
          /\ fits'[q] = (SeatsTaken(q) < limit[q]) /\ UNCHANGED <<plan, locks>>
          /\ pc[q] = "count"
      BY <1>0, <1>7, <2>1 DEF CountSeats, Fits, RequestTypes
    <3> QED
      BY <1>0, <3>1, <3>2 DEF Current, HasSeats, HasPlan
  <2>2. CASE q # r
    BY <1>0, <1>7, <2>2, StepOfAnother DEF CountSeats, RequestTypes
  <2> QED
    BY <2>1, <2>2
<1>8. ASSUME NEW r \in Request,
             CommitCreate(r) \/ CommitAccept(r) \/ CommitRevoke(r) \/ Refuse(r) \/ Abort(r)
      PROVE  Current(q)'
  <2>1. CASE CommitCreate(r) \/ CommitAccept(r)
    BY <1>2, <2>1 DEF CommitCreate, CommitAccept, HasSeats
  <2>2. CASE CommitRevoke(r)
    <3>1. req[r].inv \in Invitation
      BY <1>0, <2>2 DEF CommitRevoke, RequestTypes, Params, NoParams
    <3> QED
      BY <1>2, <2>2, <3>1 DEF CommitRevoke
  <2>3. CASE Refuse(r) \/ Abort(r)
    BY <1>2, <2>3 DEF Refuse, Abort
  <2> QED
    BY <1>8, <2>1, <2>2, <2>3
<1>9. CASE ChangePlan
  <2>1. ~HasPlan(q)
    BY <1>0, <1>9 DEF ChangePlan, Current
  <2> QED
    BY <1>0, <1>9, <2>1, OthersKeepCurrent DEF ChangePlan, RequestTypes
<1>10. ASSUME NEW e \in Email, RemoveMember(e) PROVE Current(q)'
  <2>1. Members' \subseteq Members /\ Reserved(now[q])' \subseteq Reserved(now[q])
    BY <1>0, <1>10 DEF RemoveMember, TypeOK, Members, Reserved, Pending
  <2> QED
    BY <1>0, <1>10, <2>1, OthersKeepCurrent DEF RemoveMember, RequestTypes
<1>11. CASE Tick \/ UNCHANGED vars
  <2>1. Members' \subseteq Members /\ Reserved(now[q])' \subseteq Reserved(now[q])
    BY <1>11 DEF Tick, vars, Members, Reserved, Pending
  <2> QED
    BY <1>0, <1>11, <2>1, OthersKeepCurrent DEF Tick, vars, RequestTypes
<1> QED
  BY <1>1, <1>3, <1>4, <1>5, <1>6, <1>7, <1>8, <1>9, <1>10, <1>11 DEF Next

-----------------------------------------------------------------------------
(* Theorems *)

\* The inductive invariant holds throughout.
THEOREM Invariant == Spec => []IInv
<1>1. IInv /\ [Next]_vars => IInv'
  BY TypeStep, StagesStep, SeatsStep DEF IInv
<1> QED
  BY InitInv, <1>1, PTL DEF Spec

\* Every variable stays in its domain and no lock outlives its transaction.
THEOREM TypeCorrect == Spec => []TypeOK
<1>1. IInv => TypeOK
  BY DEF IInv
<1> QED
  BY Invariant, <1>1, PTL

\* What a transaction has read of the plan and of the seats is not stale when it
\* writes.
THEOREM SeatReadsAreCurrent == Spec => []SeatsAreCurrent
<1>1. IInv => SeatsAreCurrent
  BY DEF IInv
<1> QED
  BY Invariant, <1>1, PTL

\* One more member raises the number of members by one at most.
LEMMA OneMoreMember ==
  ASSUME TypeOK, NEW e \in Email, Members' \subseteq Members \cup {e}
  PROVE  /\ Cardinality(Members) \in Nat /\ Cardinality(Members') \in Nat
         /\ Cardinality(Members') <= Cardinality(Members) + 1
<1>1. IsFiniteSet(Members)
  BY FiniteAssumption, FS_Subset DEF Members
<1>2. /\ IsFiniteSet(Members \cup {e})
      /\ Cardinality(Members \cup {e}) <= Cardinality(Members) + 1
  <2>1. /\ IsFiniteSet(Members \cup {e})
        /\ Cardinality(Members \cup {e}) =
              IF e \in Members THEN Cardinality(Members) ELSE Cardinality(Members) + 1
    BY <1>1, FS_AddElement
  <2> QED
    BY <2>1, <1>1, FS_CardinalityType
<1>3. IsFiniteSet(Members') /\ Cardinality(Members') <= Cardinality(Members \cup {e})
  BY <1>2, FS_Subset
<1>4. /\ Cardinality(Members) \in Nat /\ Cardinality(Members') \in Nat
      /\ Cardinality(Members \cup {e}) \in Nat
  BY <1>1, <1>2, <1>3, FS_CardinalityType
<1> QED
  BY <1>2, <1>3, <1>4

\* A step that adds a member leaves no more members than the plan admits.
LEMMA SeatsWithinPlanStep ==
  ASSUME IInv, Next, Members' \ Members # {}
  PROVE  Cardinality(Members') <= MaxMembers[plan']
<1>1. PICK r \in Request : CommitAccept(r)
  BY DEF Next, AuthorizeCreate, PresentInvitation, AuthorizeRevoke, Begin, LockSeats,
         LockPlan, LockInvitation, CountSeats, CommitCreate, CommitRevoke, Refuse,
         Abort, ChangePlan, RemoveMember, Tick, Members, IInv, TypeOK
<1>2. /\ HasPlan(r) /\ pc[r] = "write" /\ fits[r] /\ req[r].op = "accept"
      /\ plan' = plan /\ req[r].email \in Email
  <2>1. Members' \subseteq Members \cup {req[r].email}
    BY <1>1 DEF CommitAccept, Members, IInv, TypeOK
  <2>2. req[r].email \in Email
    BY <2>1 DEF Members
  <2> QED
    BY <1>1, <2>2 DEF CommitAccept, MayAccept, HasPlan, HasSeats
<1>3. SeatsTaken(r) < limit[r] /\ limit[r] = MaxMembers[plan] /\ limit[r] \in Nat
  BY <1>2 DEF IInv, SeatsAreCurrent, TypeOK
<1>4. SeatsTaken(r) = Cardinality(Members) + 0
  BY <1>2 DEF SeatsTaken
<1>5. Members' \subseteq Members \cup {req[r].email}
  BY <1>1 DEF CommitAccept, Members, IInv, TypeOK
<1>6. /\ Cardinality(Members) \in Nat /\ Cardinality(Members') \in Nat
      /\ Cardinality(Members') <= Cardinality(Members) + 1
  BY <1>2, <1>5, OneMoreMember DEF IInv
<1> QED
  BY <1>2, <1>3, <1>4, <1>6

\* However many acceptances, creations, removals and plan changes run at once,
\* whoever joins fits under the ceiling of the plan in force.
THEOREM CeilingKept == Spec => SeatsWithinPlan
<1>1. IInv /\ [Next]_vars =>
        [Members' \ Members # {} => Cardinality(Members') <= MaxMembers[plan']]_vars
  BY SeatsWithinPlanStep
<1> QED
  BY Invariant, <1>1, PTL DEF Spec, SeatsWithinPlan

-----------------------------------------------------------------------------
(* The life of an invitation *)

\* Only a creation makes an invitation pending; it fills one absent row.
LEMMA OnlyCreateMakesPending ==
  ASSUME IInv, Next, NEW i \in Invitation, status[i] = "absent", status'[i] = "pending"
  PROVE  \E r \in Request :
            /\ CommitCreate(r)
            /\ \A j \in Invitation \ {i} :
                  status'[j] = "pending" => /\ status[j] = "pending" /\ j \notin Lapsed(r)
                                            /\ expiresAt'[j] = expiresAt[j]
                                            /\ email'[j] = email[j]
            /\ email'[i] = req[r].email
<1>1. PICK r \in Request : CommitCreate(r)
  BY DEF Next, AuthorizeCreate, PresentInvitation, AuthorizeRevoke, Begin, LockSeats,
         LockPlan, LockInvitation, CountSeats, CommitAccept, CommitRevoke, Refuse,
         Abort, ChangePlan, RemoveMember, Tick, IInv, TypeOK
<1>2. PICK k \in Invitation :
        /\ status[k] = "absent"
        /\ status' = [j \in Invitation |-> IF j \in Lapsed(r) THEN "expired"
                                           ELSE IF j = k THEN "pending" ELSE status[j]]
        /\ email' = [email EXCEPT ![k] = req[r].email]
        /\ expiresAt' = [expiresAt EXCEPT ![k] = req[r].expiresAt]
  BY <1>1 DEF CommitCreate
<1>3. k = i
  BY <1>2
<1> QED
  BY <1>1, <1>2, <1>3 DEF IInv, TypeOK

\* One more reservation raises the number of reservations by one at most.
LEMMA OneMoreReservation ==
  ASSUME NEW time, NEW i, NEW S, S \subseteq Reserved(time) \cup {i}
  PROVE  /\ Cardinality(Reserved(time)) \in Nat /\ Cardinality(S) \in Nat
         /\ Cardinality(S) <= Cardinality(Reserved(time)) + 1
<1> DEFINE R == Reserved(time)
<1>1. IsFiniteSet(R)
  BY FiniteAssumption, FS_Subset DEF Reserved, Pending
<1> HIDE DEF R
<1>2. /\ IsFiniteSet(R \cup {i})
      /\ Cardinality(R \cup {i}) =
            IF i \in R THEN Cardinality(R) ELSE Cardinality(R) + 1
  BY <1>1, FS_AddElement
<1>3. IsFiniteSet(S) /\ Cardinality(S) <= Cardinality(R \cup {i})
  BY <1>2, FS_Subset DEF R
<1>4. /\ Cardinality(R) \in Nat /\ Cardinality(S) \in Nat
      /\ Cardinality(R \cup {i}) \in Nat
  BY <1>1, <1>2, <1>3, FS_CardinalityType
<1> QED
  BY <1>2, <1>3, <1>4 DEF R

\* Whoever is invited has a seat, whatever runs beside the creation.
LEMMA ReservationStep ==
  ASSUME IInv, Next, NEW i \in Invitation, NEW r \in Request,
         status[i] = "absent", status'[i] = "pending", pc'[r] # pc[r]
  PROVE  LET reserved == {j \in Invitation : /\ status'[j] = "pending"
                                            /\ expiresAt'[j] > now[r]}
         IN  Cardinality(Members') + Cardinality(reserved) <= MaxMembers[plan']
<1> DEFINE reserved == {j \in Invitation : status'[j] = "pending" /\ expiresAt'[j] > now[r]}
<1>1. PICK q \in Request :
            /\ CommitCreate(q)
            /\ \A j \in Invitation \ {i} :
                  status'[j] = "pending" => /\ status[j] = "pending" /\ j \notin Lapsed(q)
                                            /\ expiresAt'[j] = expiresAt[j]
                                            /\ email'[j] = email[j]
            /\ email'[i] = req[q].email
  BY OnlyCreateMakesPending
<1>2. r = q
  BY <1>1 DEF CommitCreate, Finish, IInv, TypeOK
<1>3. /\ HasPlan(r) /\ pc[r] = "write" /\ fits[r] /\ req[r].op = "create"
      /\ plan' = plan /\ member' = member
  BY <1>1, <1>2 DEF CommitCreate, MayCreate, HasPlan, HasSeats
<1>4. SeatsTaken(r) < limit[r] /\ limit[r] = MaxMembers[plan] /\ limit[r] \in Nat
  BY <1>3 DEF IInv, SeatsAreCurrent, TypeOK
<1>5. SeatsTaken(r) = Cardinality(Members) + Cardinality(Reserved(now[r]))
  BY <1>3 DEF SeatsTaken
<1>6. reserved \subseteq Reserved(now[r]) \cup {i}
  BY <1>1 DEF Reserved, Pending
<1>7. /\ Cardinality(Reserved(now[r])) \in Nat /\ Cardinality(reserved) \in Nat
      /\ Cardinality(reserved) <= Cardinality(Reserved(now[r])) + 1
  BY <1>6, OneMoreReservation
<1>8. Members' = Members /\ Cardinality(Members) \in Nat
  <2>1. Members' = Members
    BY <1>3 DEF Members
  <2>2. IsFiniteSet(Members)
    BY FiniteAssumption, FS_Subset DEF Members
  <2> QED
    BY <2>1, <2>2, FS_CardinalityType
<1> HIDE DEF reserved
<1>9. Cardinality(Members') + Cardinality(reserved) <= MaxMembers[plan']
  BY <1>3, <1>4, <1>5, <1>7, <1>8
<1> QED
  BY <1>9 DEF reserved

\* Seats are never promised beyond the plan: at each creation the members and the
\* reservations fit under the ceiling together.
THEOREM ReservationKept == Spec => ReservationWithinPlan
<1>1. IInv /\ [Next]_vars =>
        [\A i \in Invitation, r \in Request :
          status[i] = "absent" /\ status'[i] = "pending" /\ pc'[r] # pc[r] =>
          LET reserved == {j \in Invitation : /\ status'[j] = "pending"
                                             /\ expiresAt'[j] > now[r]}
          IN  Cardinality(Members') + Cardinality(reserved) <= MaxMembers[plan']]_vars
  BY ReservationStep
<1> QED
  BY Invariant, <1>1, PTL DEF Spec, ReservationWithinPlan

\* No step leads out of "accepted" or "revoked".
LEMMA TerminalStep ==
  ASSUME IInv, Next, NEW i \in Invitation, status[i] \in {"accepted", "revoked"}
  PROVE  status'[i] = status[i]
<1> USE DEF IInv, TypeOK
<1>1. ASSUME NEW r \in Request, CommitCreate(r) PROVE status'[i] = status[i]
  BY <1>1 DEF CommitCreate, Lapsed, Pending
<1>2. ASSUME NEW r \in Request, CommitAccept(r) PROVE status'[i] = status[i]
  BY <1>2 DEF CommitAccept, MayAccept, Acceptable
<1>3. ASSUME NEW r \in Request, CommitRevoke(r) PROVE status'[i] = status[i]
  BY <1>3 DEF CommitRevoke, Acceptable
<1>4. ASSUME NEW r \in Request,
             \/ AuthorizeCreate(r) \/ PresentInvitation(r) \/ AuthorizeRevoke(r) \/ Begin(r)
             \/ LockSeats(r) \/ LockPlan(r) \/ LockInvitation(r) \/ CountSeats(r)
             \/ Refuse(r) \/ Abort(r)
      PROVE  UNCHANGED status
  BY <1>4 DEF AuthorizeCreate, PresentInvitation, AuthorizeRevoke, Begin, LockSeats, LockPlan,
              LockInvitation, CountSeats, Refuse, Abort, rows, invitations
<1>5. ASSUME ChangePlan \/ Tick \/ \E e \in Email : RemoveMember(e) PROVE UNCHANGED status
  BY <1>5 DEF ChangePlan, Tick, RemoveMember, rows, invitations
<1> QED
  BY <1>1, <1>2, <1>3, <1>4, <1>5 DEF Next

\* An invitation is accepted once or revoked, never both, never twice.
THEOREM TerminalKept == Spec => TerminalIsFinal
<1>1. IInv /\ [Next]_vars =>
        [\A i \in Invitation : status[i] \in {"accepted", "revoked"} =>
            status'[i] = status[i]]_vars
  BY TerminalStep
<1> QED
  BY Invariant, <1>1, PTL DEF Spec, TerminalIsFinal

\* A new member comes from the acceptance of an invitation to it.
LEMMA JoinStep ==
  ASSUME IInv, Next, NEW e \in Members' \ Members
  PROVE  \E i \in Invitation : /\ status[i] # "accepted" /\ status'[i] = "accepted"
                               /\ email[i] = e /\ member'[e] = role[i]
<1>1. PICK r \in Request : CommitAccept(r)
  BY DEF Next, AuthorizeCreate, PresentInvitation, AuthorizeRevoke, Begin, LockSeats,
         LockPlan, LockInvitation, CountSeats, CommitCreate, CommitRevoke, Refuse,
         Abort, ChangePlan, RemoveMember, Tick, Members, IInv, TypeOK
<1>2. req[r].inv \in Invitation
  BY <1>1 DEF CommitAccept, IInv, TypeOK, Params, NoParams
<1>3. e = req[r].email
  BY <1>1 DEF CommitAccept, Members, IInv, TypeOK
<1>4. /\ status[req[r].inv] # "accepted" /\ status'[req[r].inv] = "accepted"
      /\ email[req[r].inv] = e /\ member'[e] = role[req[r].inv]
  BY <1>1, <1>2, <1>3 DEF CommitAccept, MayAccept, Acceptable, Members, IInv, TypeOK
<1> QED
  BY <1>2, <1>4

\* Nobody joins but by an invitation to their email, consumed in the same step.
THEOREM JoinKept == Spec => JoinConsumesInvitation
<1>1. IInv /\ [Next]_vars =>
        [\A e \in Members' \ Members : \E i \in Invitation :
            /\ status[i] # "accepted" /\ status'[i] = "accepted"
            /\ email[i] = e /\ member'[e] = role[i]]_vars
  BY JoinStep
<1> QED
  BY Invariant, <1>1, PTL DEF Spec, JoinConsumesInvitation

\* Every step keeps the pending invitations of an email to one.
LEMMA OnePendingStep ==
  ASSUME IInv, OnePendingPerEmail, [Next]_vars
  PROVE  OnePendingPerEmail'
<1>1. CASE \E i \in Invitation : status[i] = "absent" /\ status'[i] = "pending"
  <2>1. PICK i \in Invitation : status[i] = "absent" /\ status'[i] = "pending"
    BY <1>1
  <2>2. Next
    BY <2>1 DEF vars, rows, invitations
  <2>3. PICK r \in Request :
            /\ CommitCreate(r)
            /\ \A j \in Invitation \ {i} :
                  status'[j] = "pending" => /\ status[j] = "pending" /\ j \notin Lapsed(r)
                                            /\ expiresAt'[j] = expiresAt[j]
                                            /\ email'[j] = email[j]
            /\ email'[i] = req[r].email
    BY <2>1, <2>2, OnlyCreateMakesPending
  <2> QED
    BY <2>1, <2>3 DEF CommitCreate, MayCreate, OnePendingPerEmail, Pending
<1>2. CASE ~\E i \in Invitation : status[i] = "absent" /\ status'[i] = "pending"
  <2>1. \A i \in Invitation : status'[i] = "pending" =>
            status[i] = "pending" /\ email'[i] = email[i]
    BY <1>2
    DEF Next, AuthorizeCreate, PresentInvitation, AuthorizeRevoke, Begin, LockSeats,
        LockPlan, LockInvitation, CountSeats, CommitCreate, CommitAccept, CommitRevoke,
        Refuse, Abort, ChangePlan, RemoveMember, Tick, vars, IInv, TypeOK
  <2> QED
    BY <2>1 DEF OnePendingPerEmail, Pending
<1> QED
  BY <1>1, <1>2

\* An email has at most one pending invitation.
THEOREM OnePendingKept == Spec => []OnePendingPerEmail
<1>1. Init => OnePendingPerEmail
  BY DEF Init, OnePendingPerEmail, Pending
<1> QED
  BY Invariant, <1>1, OnePendingStep, PTL DEF Spec

-----------------------------------------------------------------------------
(* The lock order *)

\* A request that has an invitation row waits for nothing.
LEMMA RowHoldersDoNotWait ==
  ASSUME IInv, NEW q \in Request, NEW p \in Request, NEW i \in Invitation, rowLock[i] = q
  PROVE  ~WaitsOn(q, p)
  BY DEF IInv, TypeOK, Stages, WaitsOn

\* Whoever a request waits on waits, if at all, for an invitation row.
LEMMA WaitChain ==
  ASSUME IInv, NEW r \in Request, NEW q \in Request, NEW p \in Request, NEW x \in Request,
         WaitsOn(r, q), WaitsOn(q, p)
  PROVE  ~WaitsOn(p, x)
<1>1. \E i \in Invitation : rowLock[i] = p
  <2>1. CASE \E i \in Invitation : rowLock[i] = q
    BY <2>1, RowHoldersDoNotWait
  <2>2. CASE seatLock = q
    <3>1. pc[q] # "seats"
      BY <2>2 DEF IInv, TypeOK
    <3>2. CASE pc[q] = "row"
      <4>1. req[q].inv \in Invitation
        BY <3>2 DEF IInv, TypeOK, Stages, Params, NoParams
      <4> QED
        BY <3>1, <3>2, <4>1 DEF WaitsOn
    <3>3. CASE pc[q] # "row"
      BY <3>1, <3>3 DEF WaitsOn, Lapsed, Pending
    <3> QED
      BY <3>2, <3>3
  <2>3. (\E i \in Invitation : rowLock[i] = q) \/ seatLock = q
    <3>1. CASE pc[r] = "row"
      <4>1. req[r].inv \in Invitation
        BY <3>1 DEF IInv, TypeOK, Stages, Params, NoParams
      <4> QED
        BY <3>1, <4>1 DEF WaitsOn
    <3>2. CASE pc[r] # "row"
      BY <3>2 DEF WaitsOn, Lapsed, Pending
    <3> QED
      BY <3>1, <3>2
  <2> QED
    BY <2>1, <2>2, <2>3
<1> QED
  BY <1>1, RowHoldersDoNotWait

\* No set of requests waits on itself: the quota transactions cannot deadlock.
THEOREM NoDeadlock == Spec => []NoWaitCycle
<1>1. IInv => NoWaitCycle
  <2> SUFFICES ASSUME IInv, NEW S \in (SUBSET Request) \ {{}},
                      \A r \in S : \E q \in S : WaitsOn(r, q)
               PROVE  FALSE
    BY DEF NoWaitCycle
  <2>1. PICK r \in S : TRUE
    OBVIOUS
  <2>2. PICK q \in S : WaitsOn(r, q)
    BY <2>1
  <2>3. PICK p \in S : WaitsOn(q, p)
    BY <2>2
  <2>4. PICK x \in S : WaitsOn(p, x)
    BY <2>3
  <2> QED
    BY <2>2, <2>3, <2>4, WaitChain
<1> QED
  BY Invariant, <1>1, PTL
=============================================================================
