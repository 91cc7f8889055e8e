CONSTANTS
    None = None
    Session = {s1, s2}
    ResetToken = {t1, t2}
    Request = {r1, r2}
    MaxChanges = 2
SPECIFICATION Spec
INVARIANTS
    ResetEndsPriorAuthentication
CHECK_DEADLOCK FALSE
