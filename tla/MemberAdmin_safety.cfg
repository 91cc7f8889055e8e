CONSTANTS
    OrgA = OrgA
    OrgB = OrgB
    r1 = r1
    r2 = r2
    Member = {1, 2, 3}
    Org = {OrgA, OrgB}
    OrgOf <- MCOneOrg
    Request = {r1, r2}
    NoRequest = NoRequest
SYMMETRY MCRequests
SPECIFICATION Spec
INVARIANTS
    LastOwner
PROPERTIES
    DecisionIsNotStale
    OwnerAuthority
