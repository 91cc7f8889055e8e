CONSTANTS
    None = None
    Session = {s1}
    Token = {t1, t2, t3, t4}
    Request = {r1, r2}
    MayFail = TRUE
SYMMETRY MCSymmetry
SPECIFICATION Spec
INVARIANTS
    NoFork
    LateTokensAreBarren
CHECK_DEADLOCK FALSE
