\* A COMMIT succeeds and its acknowledgement is lost.
SPECIFICATION Spec
CONSTANTS
    Workers = {w1}
    Tenants = {t1}
    Contents = {"cte"}
    Keys = {"kc", "kn"}
    Names = {"plain", "suffix1", "suffix2"}
    PlainName = "plain"
    NoKey = NoKey
    NoFile = NoFile
    KindOf <- MCKindOf
    KeyOf <- MCKeyOf
    RefsOf <- MCRefsOf
    Unstorable = {}
    OddKeys = {}
    Incidents = {"lost_commit"}
    MaxIncidents = 1
INVARIANT
    OriginalKept
