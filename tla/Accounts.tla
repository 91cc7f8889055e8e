------------------------------ MODULE Accounts ------------------------------
(***************************************************************************)
(* What registration promises about accounts, whatever happens between the *)
(* requests: an address belongs to one account at most, an account is      *)
(* opened once and on a free address, and after that it only moves to      *)
(* another free address.  Registration.tla implements this.                *)
(***************************************************************************)
CONSTANTS Email, Account, None

VARIABLES
    holder,   \* whose account an address is, None for a free one
    opened    \* the accounts opened so far

vars == <<holder, opened>>

Init ==
    /\ opened \subseteq Account
    /\ holder \in [Email -> opened \cup {None}]
    /\ \A e, f \in Email : holder[e] # None /\ holder[e] = holder[f] => e = f

Open(e, a) ==
    /\ holder[e] = None
    /\ a \notin opened
    /\ holder' = [holder EXCEPT ![e] = a]
    /\ opened' = opened \cup {a}

Move(e, f) ==
    /\ holder[e] # None
    /\ holder[f] = None
    /\ holder' = [holder EXCEPT ![e] = None, ![f] = holder[e]]
    /\ UNCHANGED opened

Next ==
    \/ \E e \in Email, a \in Account : Open(e, a)
    \/ \E e, f \in Email : Move(e, f)

Spec == Init /\ [][Next]_vars
=============================================================================
