CONSTANTS
    None = None
    Session = {s1, s2}
    ResetToken = {t1, t2, t3}
    Request = {r1, r2}
    MaxChanges = 2
    Login = {login}
    RefreshToken = {t1, t2}
SPECIFICATION MCFairSpec
INVARIANTS
    OneOpenReset
PROPERTIES
    RetiredTokenIsDead
    ResetLeavesNoSession
    ChangeEndsWhatItFound
    TransactionsEnd
    ReuseEndsLogin
CHECK_DEADLOCK FALSE
