CONSTANTS
    founder = founder
    e1 = e1
    e2 = e2
    i1 = i1
    i2 = i2
    i3 = i3
    r1 = r1
    r2 = r2
    Founder = founder
    None = None
    Plan = {"free", "pro"}
    MaxMembers <- MCMaxMembers
    InvitedRole = {"owner", "admin"}
    Ttl = 1
    MaxTime = 2
    Invitation = {i1, i2}
    Request = {r1, r2}
    Email = {founder, e1, e2}
SYMMETRY MCSymmetry
SPECIFICATION Spec
INVARIANTS
    NoWaitCycle
PROPERTIES
    SeatsWithinPlan
    ReservationWithinPlan
    JoinConsumesInvitation
CHECK_DEADLOCK FALSE
