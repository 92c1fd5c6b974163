\* Two tenants upload the same CT-e and NF-e, an administrator deletes a link
\* or a document, and a client lists them.
SPECIFICATION ReadersSpec
CONSTANTS
    Workers = {w1, w2}
    Clients = {c1}
    Tenants = {t1, t2}
    Contents = {"cte", "nfe"}
    Keys = {"kc", "kn"}
    Names = {"plain", "suffix1", "suffix2"}
    PlainName = "plain"
    NoKey = NoKey
    NoFile = NoFile
    NoTenant = NoTenant
    KindOf <- MCKindOf
    KeyOf <- MCKeyOf
    RefsOf <- MCRefsOf
    Unstorable = {}
    OddKeys = {}
    Incidents = {"delete"}
    MaxIncidents = 1
SYMMETRY MCSymmetry
INVARIANTS
    ListingFaithful
    ToldIsFound
