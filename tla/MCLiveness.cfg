\* Three threads that compete for the slots and the key of one CT-e, and for the
\* slot of a file that is no document; nothing fails.
SPECIFICATION FairSpec
CONSTANTS
    Workers = {w1, w2, w3}
    Tenants = {t1}
    Contents = {"cte", "cte2", "bad"}
    Keys = {"kc", "kn"}
    Names = {"plain", "suffix1", "suffix2"}
    PlainName = "plain"
    NoKey = NoKey
    NoFile = NoFile
    KindOf <- MCKindOf
    KeyOf <- MCKeyOf
    RefsOf <- MCRefsOf
    Unstorable = {}
    OddKeys = {}
    Incidents = {}
    MaxIncidents = 0
INVARIANTS
    OneDocumentPerKey
    NoServerError
    NoCircularWait
PROPERTIES
    EveryUploadAnswered
