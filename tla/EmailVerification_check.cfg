CONSTANTS
    None = None
    Address = {a1, a2}
    FirstAddress = a1
    Token = {t1, t2, t3}
    Request = {r1, r2}
SPECIFICATION FairSpec
PROPERTIES
    AccountWritesRetireAll
    NobodyIsStranded
    TransactionsEnd
CHECK_DEADLOCK FALSE
