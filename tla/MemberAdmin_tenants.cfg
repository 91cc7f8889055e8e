CONSTANTS
    OrgA = OrgA
    OrgB = OrgB
    r1 = r1
    r2 = r2
    Org = {OrgA, OrgB}
    Request = {r1, r2}
    NoRequest = NoRequest
    Member = {1, 2, 3}
    OrgOf <- MCTwoOrgs
SPECIFICATION FairSpec
PROPERTIES
    ImplementsPolicy
    TransactionsEnd
