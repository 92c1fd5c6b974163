\* Two requests at a time of one browser, which save its session over each
\* other, while its owner gains and loses tenants.
SPECIFICATION Spec
CONSTANTS
    Requests = {r1, r2}
    Users = {u1}
    u1 = u1
    Tenants = {t1, t2}
    t1 = t1
    Browsers = {b1}
    OwnerOf <- MCOwnerOf
    Roles = {"operator"}
    Nobody = Nobody
    NoTenant = NoTenant
    NoBrowser = NoBrowser
    NoRequest = NoRequest
    InitialGrants <- MCInitialGrants
    MaxChanges = 1
SYMMETRY MCSymmetryOneRole
INVARIANTS
    MembershipWitnessed
PROPERTIES
    SelectionEarned
