CONSTANTS
    None = None
    Founder = founder
    Email = {e1, e2}
    FounderEmail = e1
    InvitedEmail = e2
    Generation = {g1, g2}
    Request = {r1, r2}
SPECIFICATION FairSpec
INVARIANTS
    MailedWasStaged
PROPERTIES
    NewestLinkWins
    JoinIsHonored
    ImplementsAccounts
    TransactionsEnd
CHECK_DEADLOCK FALSE
