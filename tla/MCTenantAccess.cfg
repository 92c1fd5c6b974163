\* One request at a time of two users, with or without the session of u1,
\* while memberships, tenants and users change twice.
SPECIFICATION Spec
CONSTANTS
    Requests = {r1}
    Users = {u1, u2}
    u1 = u1
    Tenants = {t1, t2}
    t1 = t1
    Browsers = {b1}
    OwnerOf <- MCOwnerOf
    Roles = {"operator", "viewer"}
    Nobody = Nobody
    NoTenant = NoTenant
    NoBrowser = NoBrowser
    NoRequest = NoRequest
    InitialGrants <- MCInitialGrants
    MaxChanges = 2
INVARIANTS
    TypeOK
    MembershipWitnessed
    UserAndRoleTogether
    RefusedForCause
