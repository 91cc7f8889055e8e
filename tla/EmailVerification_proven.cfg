CONSTANTS
    None = None
    Address = {a1, a2}
    FirstAddress = a1
    Token = {t1, t2}
    Request = {r1, r2}
SPECIFICATION Spec
INVARIANTS
    VerifiedAddressIsProven
CHECK_DEADLOCK FALSE
