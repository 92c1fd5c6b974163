\* An administrator deletes a CT-e, and another file of it is uploaded.
SPECIFICATION Spec
CONSTANTS
    Workers = {w1}
    Tenants = {t1}
    Contents = {"cte", "cte2"}
    Keys = {"kc", "kn"}
    Names = {"plain", "suffix1", "suffix2"}
    PlainName = "plain"
    NoKey = NoKey
    NoFile = NoFile
    KindOf <- MCKindOf
    KeyOf <- MCKeyOf
    RefsOf <- MCRefsOf
    Unstorable = {}
    OddKeys = {}
    Incidents = {"delete"}
    MaxIncidents = 1
INVARIANT
    NoServerError
