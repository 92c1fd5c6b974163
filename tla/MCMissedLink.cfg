\* A CT-e and the NF-e it refers to are uploaded at the same time.
SPECIFICATION Spec
CONSTANTS
    Workers = {w1, w2}
    Tenants = {t1}
    Contents = {"cte", "nfe"}
    Keys = {"kc", "kn"}
    Names = {"plain", "suffix1", "suffix2"}
    PlainName = "plain"
    NoKey = NoKey
    NoFile = NoFile
    KindOf <- MCKindOf
    KeyOf <- MCKeyOf
    RefsOf <- MCRefsOf
    Unstorable = {}
    OddKeys = {}
    Incidents = {}
    MaxIncidents = 0
INVARIANT
    LinksComplete
